---- MODULE Spec2Model ----
(***************************************************************************)
(* The chat page's streaming-reply pipeline (src/src/pages/Chat.tsx,       *)
(* sendMessage), the session store (SessionContext: SessionProvider and    *)
(* its operations) and the store's persistence in localStorage.            *)
(*                                                                         *)
(* Text is a sequence of one-character strings, so that split, trim,       *)
(* startsWith, slice and JSON.parse are computed over characters.          *)
(* A Date is its time value; toISOString and new Date(text) are computed   *)
(* over the characters of the ISO text. The stored collection is held as   *)
(* the JSON value that JSON.stringify's text denotes. The messages of the  *)
(* sessions have no ids in the model; session ids never repeat. The        *)
(* useChat hook (src/src/hooks/useChat.ts) reconciles its own cached       *)
(* transcript with the backend's history; its messages have their ids.     *)
(***************************************************************************)
EXTENDS Integers, Sequences, FiniteSets, TLC

(* ------------------------------------------------------------------ *)
(* Bounds                                                             *)
(* ------------------------------------------------------------------ *)

\* sendMessage invocations that pass the guard, per behaviour
MaxSends == 2

\* frames of one response body
MaxFrames == 3

\* frames of one response body where reads split it at any character
MaxSplitFrames == 2

\* there a read delivers 1..MaxChunk characters, or everything that is left
MaxChunk == 3

\* frames of one response body that holds frames the backend should not send
MaxEdgeFrames == 2

\* the todos added to the list, per behaviour
MaxTodos == 2

\* the operations of the store after the page was loaded, a millisecond apart
MaxTicks == 2

\* the messages a session is given by the operations of the store
MaxMessages == 1

\* the messages of a cached transcript, the welcome message aside
MaxLocal == 2

\* the messages of a backend history
MaxBackend == 2

\* useChat's sendMessage invocations that pass the guard, per behaviour
MaxHookSends == 1

(* ------------------------------------------------------------------ *)
(* Text                                                               *)
(* ------------------------------------------------------------------ *)

NL == "\n"

QUOTE == "\""

\* the characters String.prototype.trim removes
Whitespace == {" ", "\t", "\r", NL}

RECURSIVE TrimStart(_)
TrimStart(s) ==
    IF s # <<>> /\ Head(s) \in Whitespace THEN TrimStart(Tail(s)) ELSE s

RECURSIVE TrimEnd(_)
TrimEnd(s) ==
    IF s # <<>> /\ s[Len(s)] \in Whitespace
    THEN TrimEnd(SubSeq(s, 1, Len(s) - 1))
    ELSE s

\* String.prototype.trim
Trim(s) == TrimEnd(TrimStart(s))

\* String.prototype.startsWith
StartsWith(s, p) == Len(s) >= Len(p) /\ SubSeq(s, 1, Len(p)) = p

\* String.prototype.slice(n), n >= 0
Slice(s, n) == SubSeq(s, n + 1, Len(s))

\* String.prototype.split('\n'): the pieces between the newlines; always at
\* least one piece, the last one being what follows the last newline
NewlinesOf(s) == {i \in 1..Len(s) : s[i] = NL}

\* the j-th smallest of the positions nl; 0 for j = 0 and past for j beyond them
NthOf(nl, j, past) ==
    IF j = 0 THEN 0
    ELSE IF j > Cardinality(nl) THEN past
    ELSE CHOOSE p \in nl : Cardinality({q \in nl : q <= p}) = j

SplitAt(s, nl) ==
    [j \in 1..(Cardinality(nl) + 1) |->
        SubSeq(s, NthOf(nl, j - 1, Len(s) + 1) + 1, NthOf(nl, j, Len(s) + 1) - 1)]

Split(s) == SplitAt(s, NewlinesOf(s))

RECURSIVE Concat(_)
Concat(ss) == IF ss = <<>> THEN <<>> ELSE Head(ss) \o Concat(Tail(ss))

(* ------------------------------------------------------------------ *)
(* JavaScript values and JSON.parse                                   *)
(* ------------------------------------------------------------------ *)

\* A JavaScript value: undefined, null, a string (s) or an object (m, its
\* members as <<key, value>> pairs in source order).
Undefined == [t |-> "undefined", s |-> <<>>, m |-> <<>>]

Null == [t |-> "null", s |-> <<>>, m |-> <<>>]

Str(s) == [t |-> "string", s |-> s, m |-> <<>>]

Obj(m) == [t |-> "object", s |-> <<>>, m |-> m]

Arr(m) == [t |-> "array", s |-> <<>>, m |-> m]

\* o.k for an object o: the last member named k, undefined when there is none
RECURSIVE GetMember(_, _, _)
GetMember(m, k, i) ==
    IF i = 0 THEN Undefined
    ELSE IF m[i][1] = k THEN m[i][2]
    ELSE GetMember(m, k, i - 1)

Get(o, k) == GetMember(o.m, k, Len(o.m))

\* ToBoolean
Truthy(v) == v.t \in {"object", "array"} \/ (v.t = "string" /\ v.s # <<>>)

\* ToString, as the += of a string and a value applies it
ToStr(v) ==
    CASE v.t = "string" -> v.s
      [] v.t = "undefined" -> <<"u", "n", "d", "e", "f", "i", "n", "e", "d">>
      [] v.t = "null" -> <<"n", "u", "l", "l">>
      [] OTHER -> <<"[", "o", "b", "j", "e", "c", "t", " ", "O", "b", "j", "e", "c", "t", "]">>

\* a || b
OrElse(a, b) == IF Truthy(a) THEN a ELSE b

ParseFail == [ok |-> FALSE, val |-> Undefined]

ParseOk(v) == [ok |-> TRUE, val |-> v]

JsonWs == {" ", "\t", "\r", NL}

RECURSIVE SkipWs(_, _)
SkipWs(t, i) == IF i <= Len(t) /\ t[i] \in JsonWs THEN SkipWs(t, i + 1) ELSE i

\* the index of the quote that closes the string opened before i, 0 when the
\* string is not closed (escapes are outside the texts of this model: a
\* backslash makes the text unparsable)
RECURSIVE CloseQuote(_, _)
CloseQuote(t, i) ==
    IF i > Len(t) \/ t[i] = "\\" \/ t[i] = NL THEN 0
    ELSE IF t[i] = QUOTE THEN i
    ELSE CloseQuote(t, i + 1)

\* The members of an object: at i (white space skipped) the key's opening
\* quote, j its closing quote, c the colon, v the value's opening quote, w its
\* closing quote, e what follows the value: a comma and more members, or the
\* closing brace and nothing but white space. An index of 0 is a SyntaxError.
RECURSIVE ParseMembers(_, _, _)
MemberEnd(t, i, j, v, w, e, acc) ==
    IF e = 0 \/ e > Len(t) THEN ParseFail
    ELSE IF t[e] = ","
    THEN ParseMembers(t, e + 1, Append(acc, <<SubSeq(t, i + 1, j - 1), Str(SubSeq(t, v + 1, w - 1))>>))
    ELSE IF t[e] = "}" /\ SkipWs(t, e + 1) > Len(t)
    THEN ParseOk(Obj(Append(acc, <<SubSeq(t, i + 1, j - 1), Str(SubSeq(t, v + 1, w - 1))>>)))
    ELSE ParseFail

MemberValueEnd(t, i, j, v, w, acc) ==
    MemberEnd(t, i, j, v, w, IF w = 0 THEN 0 ELSE SkipWs(t, w + 1), acc)

MemberValue(t, i, j, v, acc) ==
    MemberValueEnd(t, i, j, v,
                   IF v # 0 /\ v <= Len(t) /\ t[v] = QUOTE THEN CloseQuote(t, v + 1) ELSE 0, acc)

MemberColon(t, i, j, c, acc) ==
    MemberValue(t, i, j, IF c = 0 \/ c > Len(t) \/ t[c] # ":" THEN 0 ELSE SkipWs(t, c + 1), acc)

MemberKeyEnd(t, i, j, acc) ==
    MemberColon(t, i, j, IF j = 0 THEN 0 ELSE SkipWs(t, j + 1), acc)

MemberKey(t, i, acc) ==
    MemberKeyEnd(t, i, IF i <= Len(t) /\ t[i] = QUOTE THEN CloseQuote(t, i + 1) ELSE 0, acc)

ParseMembers(t, i0, acc) == MemberKey(t, SkipWs(t, i0), acc)

ParseObject(text, i, k) ==
    IF k <= Len(text) /\ text[k] = "}"
    THEN IF SkipWs(text, k + 1) > Len(text) THEN ParseOk(Obj(<<>>)) ELSE ParseFail
    ELSE ParseMembers(text, i + 1, <<>>)

ParseString(text, i, q) ==
    IF q # 0 /\ SkipWs(text, q + 1) > Len(text)
    THEN ParseOk(Str(SubSeq(text, i + 1, q - 1)))
    ELSE ParseFail

ParseValue(text, i) ==
    IF i > Len(text) THEN ParseFail
    ELSE IF text[i] = "{" THEN ParseObject(text, i, SkipWs(text, i + 1))
    ELSE IF text[i] = QUOTE THEN ParseString(text, i, CloseQuote(text, i + 1))
    ELSE IF TrimEnd(Slice(text, i - 1)) = <<"n", "u", "l", "l">> THEN ParseOk(Null)
    ELSE ParseFail

\* JSON.parse on the texts of this model: the literal null, a string, and an
\* object whose members are strings; ok = FALSE is the SyntaxError
JSONParse(text) == ParseValue(text, SkipWs(text, 1))

(* ------------------------------------------------------------------ *)
(* The words of the wire protocol and of the payloads                 *)
(* ------------------------------------------------------------------ *)

EventPrefix == <<"e", "v", "e", "n", "t", ":">>

DataPrefix == <<"d", "a", "t", "a", ":">>

CommentPrefix == <<":">>

TypeMessage == <<"m", "e", "s", "s", "a", "g", "e">>

TypeThinking == <<"t", "h", "i", "n", "k", "i", "n", "g">>

TypeProgress == <<"p", "r", "o", "g", "r", "e", "s", "s">>

TypeError == <<"e", "r", "r", "o", "r">>

KeyStatus == <<"s", "t", "a", "t", "u", "s">>

KeyTool == <<"t", "o", "o", "l">>

KeyFile == <<"f", "i", "l", "e">>

KeyAction == <<"a", "c", "t", "i", "o", "n">>

KeyContent == <<"c", "o", "n", "t", "e", "n", "t">>

KeyResponse == <<"r", "e", "s", "p", "o", "n", "s", "e">>

KeyMessage == <<"m", "e", "s", "s", "a", "g", "e">>

KeyToolCalls == <<"t", "o", "o", "l", "C", "a", "l", "l", "s">>

StatusStarting == <<"s", "t", "a", "r", "t", "i", "n", "g">>

StatusQueued == <<"q", "u", "e", "u", "e", "d">>

StatusRunning == <<"r", "u", "n", "n", "i", "n", "g">>

StatusCompleted == <<"c", "o", "m", "p", "l", "e", "t", "e", "d">>

NoResponse == <<"N", "o", " ", "r", "e", "s", "p", "o", "n", "s", "e">>

Apology == <<"S", "o", "r", "r", "y", ",", " ", "I", " ", "e", "n", "c", "o", "u", "n", "t", "e", "r", "e", "d", " ", "a", "n", " ", "e", "r", "r", "o", "r", " ", "p", "r", "o", "c", "e", "s", "s", "i", "n", "g", " ", "y", "o", "u", "r", " ", "r", "e", "q", "u", "e", "s", "t", ".">>

NewConversation == <<"N", "e", "w", " ", "c", "o", "n", "v", "e", "r", "s", "a", "t", "i", "o", "n">>

Ellipsis == <<".", ".", ".">>

(* ------------------------------------------------------------------ *)
(* Dispatch of one line of the response body                          *)
(* ------------------------------------------------------------------ *)

\* What the read loop works on: currentEventType (cet), the content buffer
\* streamingContentRef.current (ref), the published partial content
\* streamingContent (sc), progressSteps (steps) and isThinking (thinking).

\* findIndex(s => s.tool === data.tool && s.file === data.file), 0 for -1
RECURSIVE FindIndex(_, _, _, _)
FindIndex(prev, tool, file, i) ==
    IF i > Len(prev) THEN 0
    ELSE IF prev[i].tool = tool /\ prev[i].file = file THEN i
    ELSE FindIndex(prev, tool, file, i + 1)

\* the updater given to setProgressSteps
NewStep(data) ==
    [tool |-> Get(data, KeyTool),
     file |-> Get(data, KeyFile),
     action |-> Get(data, KeyAction),
     status |-> OrElse(Get(data, KeyStatus), Str(StatusRunning)),
     content |-> Get(data, KeyContent)]

PutStepAtEnd(prev, existingIndex, newStep) ==
    IF existingIndex >= 1
    THEN Append(SubSeq(prev, 1, existingIndex - 1) \o SubSeq(prev, existingIndex + 1, Len(prev)),
                newStep)
    ELSE Append(prev, newStep)

PutStep(prev, existingIndex, newStep) ==
    IF existingIndex >= 1
    THEN [prev EXCEPT ![existingIndex] = newStep]
    ELSE Append(prev, newStep)

UpsertStep(prev, data) ==
    PutStep(prev, FindIndex(prev, Get(data, KeyTool), Get(data, KeyFile), 1), NewStep(data))

OnThinkingSticky(st, data) ==
    [st EXCEPT !.thinking =
        @ \/ Get(data, KeyStatus) \in {Str(StatusStarting), Str(StatusQueued)}]

\* case 'thinking'
OnThinking(st, data) ==
    [st EXCEPT !.thinking = Get(data, KeyStatus) \in {Str(StatusStarting), Str(StatusQueued)}]

\* streamingContentRef.current += text; setStreamingContent(streamingContentRef.current)
Publish(st, ref2) == [st EXCEPT !.ref = ref2, !.sc = ref2]

OnProgressOfToolsOnly(st, data) ==
    IF Truthy(Get(data, KeyTool)) \/ Truthy(Get(data, KeyFile)) \/ Truthy(Get(data, KeyAction))
    THEN Publish([st EXCEPT !.steps = UpsertStep(st.steps, data)],
                 st.ref \o ToStr(Get(data, KeyContent)))
    ELSE st

\* case 'progress'
OnProgress(st, data) ==
    Publish([st EXCEPT !.steps = IF Truthy(Get(data, KeyTool)) \/ Truthy(Get(data, KeyFile))
                                    \/ Truthy(Get(data, KeyAction))
                                 THEN UpsertStep(st.steps, data)
                                 ELSE st.steps],
            st.ref \o ToStr(Get(data, KeyContent)))

\* the catch of the inner try: the payload text joins the content buffer
OnRawText(st, dataContent) == Publish(st, st.ref \o dataContent)

\* the switch on currentEventType; reading a property of null throws the
\* TypeError that the inner catch receives, before any state is written
Dispatch(st, data, dataContent) ==
    IF st.cet \in {TypeThinking, TypeProgress, TypeError} /\ data.t = "null"
    THEN OnRawText(st, dataContent)
    ELSE IF st.cet = TypeThinking THEN OnThinking(st, data)
    ELSE IF st.cet = TypeProgress THEN OnProgress(st, data)
    ELSE st

\* a data: line
KeepType(st) == st

\* currentEventType = 'message', after the inner try
ResetType(st) == [st EXCEPT !.cet = TypeMessage]

OnPayload(st, dataContent, parsed) ==
    ResetType(IF parsed.ok THEN Dispatch(st, parsed.val, dataContent)
              ELSE OnRawText(st, dataContent))

TryParse(st, dataContent) == OnPayload(st, dataContent, JSONParse(dataContent))

OnData(st, line) == TryParse(st, Trim(Slice(line, 5)))

\* the body of the for loop over the complete lines
ProcessLine(st, line) ==
    IF Trim(line) = <<>> \/ StartsWith(line, CommentPrefix) THEN st
    ELSE IF StartsWith(line, EventPrefix) THEN [st EXCEPT !.cet = Trim(Slice(line, 6))]
    ELSE IF StartsWith(line, DataPrefix) THEN OnData(st, line)
    ELSE st

RECURSIVE ProcessLines(_, _, _)
ProcessLines(st, lines, i) ==
    IF i > Len(lines) THEN st ELSE ProcessLines(ProcessLine(st, lines[i]), lines, i + 1)

RemainderDropped(lines) == <<>>

\* lines.pop() || '': what follows the last newline stays in the buffer
Remainder(lines) == lines[Len(lines)]

\* one turn of the read loop: buffer += chunk, split, keep the incomplete
\* last line, dispatch the complete ones in order
ProcessSplit(st, lines) ==
    [st |-> ProcessLines(st, SubSeq(lines, 1, Len(lines) - 1), 1),
     buffer |-> Remainder(lines)]

ProcessChunk(st, buffer, chunk) == ProcessSplit(st, Split(buffer \o chunk))

(* ------------------------------------------------------------------ *)
(* The backend's side of the wire: frames and their text              *)
(* ------------------------------------------------------------------ *)

\* A frame as the backend means it: an optional event: line (ev = <<>> for
\* none) and one data: line, whose payload is the JSON text of an object
\* with the members m (json = TRUE) or the text raw. A padded frame has a
\* space after each colon and a blank line after it.
JsonFrame(ev, m, padded) == [ev |-> ev, json |-> TRUE, m |-> m, raw |-> <<>>, padded |-> padded]

RawFrame(ev, raw) == [ev |-> ev, json |-> FALSE, m |-> <<>>, raw |-> raw, padded |-> FALSE]

Quoted(s) == <<QUOTE>> \o s \o <<QUOTE>>

RECURSIVE MembersText(_, _)
MembersText(m, i) ==
    IF i > Len(m) THEN <<>>
    ELSE (IF i > 1 THEN <<",">> ELSE <<>>)
         \o Quoted(m[i][1]) \o <<":">> \o Quoted(m[i][2]) \o MembersText(m, i + 1)

\* JSON.stringify of an object with string members
JsonText(m) == <<"{">> \o MembersText(m, 1) \o <<"}">>

PayloadText(f) == IF f.json THEN JsonText(f.m) ELSE f.raw

FrameText(f) ==
    LET sp == IF f.padded THEN <<" ">> ELSE <<>>
    IN  (IF f.ev = <<>> THEN <<>> ELSE EventPrefix \o sp \o f.ev \o <<NL>>)
        \o DataPrefix \o sp \o PayloadText(f) \o <<NL>>
        \o (IF f.padded THEN <<NL>> ELSE <<>>)

RECURSIVE WireText(_)
WireText(frames) ==
    IF frames = <<>> THEN <<>> ELSE FrameText(Head(frames)) \o WireText(Tail(frames))

\* the frames the backend sends in this model
ProgressGA == JsonFrame(TypeProgress,
                  <<<<KeyTool, <<"g">>>>, <<KeyFile, <<"a">>>>, <<KeyContent, <<"x">>>>>>, FALSE)

ProgressGADone == JsonFrame(TypeProgress,
                  <<<<KeyTool, <<"g">>>>, <<KeyFile, <<"a">>>>, <<KeyStatus, StatusCompleted>>,
                    <<KeyContent, <<"y">>>>>>, FALSE)

ProgressGB == JsonFrame(TypeProgress,
                  <<<<KeyTool, <<"g">>>>, <<KeyFile, <<"b">>>>, <<KeyContent, <<"z">>>>>>, FALSE)

ProgressText == JsonFrame(TypeProgress, <<<<KeyContent, <<"w">>>>>>, FALSE)

ThinkingQueued == JsonFrame(TypeThinking, <<<<KeyStatus, StatusQueued>>>>, TRUE)

ThinkingStarting == JsonFrame(TypeThinking, <<<<KeyStatus, StatusStarting>>>>, FALSE)

ThinkingDone == JsonFrame(TypeThinking, <<<<KeyStatus, <<"d", "o", "n", "e">>>>>>, FALSE)

BareJson == JsonFrame(<<>>, <<<<KeyContent, <<"v">>>>>>, FALSE)

BareRaw == RawFrame(<<>>, <<"h", "i">>)

ProgressNoContent == JsonFrame(TypeProgress, <<<<KeyTool, <<"g">>>>>>, FALSE)

ErrorEvent == JsonFrame(TypeError, <<<<KeyContent, <<"e">>>>>>, FALSE)

FrameVocab == {ProgressGA, ProgressGADone, ProgressGB, ProgressText, ProgressNoContent,
               ThinkingQueued, ThinkingStarting, ThinkingDone, ErrorEvent, BareJson, BareRaw}

RECURSIVE SeqsUpTo(_, _)
SeqsUpTo(S, n) ==
    IF n = 0 THEN {<<>>}
    ELSE LET shorter == SeqsUpTo(S, n - 1)
         IN  shorter \cup {Append(q, x) : q \in shorter, x \in S}

\* the response bodies of the stream specification
Streams == SeqsUpTo(FrameVocab, MaxFrames)

\* the response bodies of the specification with several sends
Bodies == {<<>>, <<ThinkingQueued, ProgressGA>>}

\* frames with a payload that is no JSON text, that is the JSON text null,
\* or under an event type the client does not know
TypePing == <<"p", "i", "n", "g">>

RawProgress == RawFrame(TypeProgress, <<"{", "x">>)

RawThinking == RawFrame(TypeThinking, <<"o", "o", "p", "s">>)

RawTrailing == RawFrame(<<>>, <<"w", "o", " ">>)

NullError == RawFrame(TypeError, <<"n", "u", "l", "l">>)

NullBare == RawFrame(<<>>, <<"n", "u", "l", "l">>)

UnknownEvent == JsonFrame(TypePing, <<<<KeyContent, <<"u">>>>>>, FALSE)

EdgeVocab == {RawProgress, RawThinking, RawTrailing, NullError, NullBare, UnknownEvent,
              ErrorEvent, BareJson, ProgressText, ProgressNoContent, ProgressGA, ThinkingQueued}

\* the response bodies of the specification of such frames
EdgeStreams == SeqsUpTo(EdgeVocab, MaxEdgeFrames)

\* the response bodies that reads split at any character
SplitStreams == SeqsUpTo({ProgressGA, ThinkingQueued, BareJson, BareRaw}, MaxSplitFrames)

(* ------------------------------------------------------------------ *)
(* State                                                              *)
(* ------------------------------------------------------------------ *)

VARIABLES
    sessions,             \* SessionProvider: the session collection
    activeSessionId,      \* SessionProvider: the active pointer
    storedActiveId,       \* localStorage, ACTIVE_SESSION_KEY
    storage,              \* localStorage, STORAGE_KEY
    storageMode,          \* how localStorage behaves: "ok", "full" or "denied"
    clock,                \* the time, in milliseconds
    fresh,                \* the number of ids generateId has produced
    status,               \* SessionProvider: "unmounted", "running" or "crashed"
    named,                \* the ids of the sessions that have been non-empty
    chatHistory,          \* localStorage, useChat's STORAGE_KEY
    useChat_messages,     \* useChat: messages
    useChat_isLoading,    \* useChat: isLoading
    isLoadingHistory,     \* useChat
    historyLoadedRef,     \* useChat: the effect that loads the history has run
    localMessages,        \* initChat: what it read before it awaited loadHistory
    useChat_sends,        \* useChat: sendMessage invocations that passed the guard
    todos,                \* Todos: the todo collection
    todoIds,              \* Todos: the number of ids its generateId has produced
    todoStorage,          \* localStorage, the STORAGE_KEY of Todos
    messages,             \* Chat: the displayed messages
    isLoading,            \* Chat: the busy flag
    isStreaming,          \* Chat
    isThinking,           \* Chat
    streamingContent,     \* Chat: the published partial content
    streamingContentRef,  \* Chat: the content buffer (a ref)
    progressSteps,        \* Chat: the progress list
    showSummary,          \* Chat: the "saved" acknowledgment
    timers,               \* pending setTimeout(() => setShowSummary(false), 3000)
    sends,                \* the accepted sendMessage invocations and their locals
    requests,             \* the requests issued to the backend, in order
    invocations,          \* sendMessage/handleSend invocations so far
    lastCall              \* how the latest invocation went

hookVars == <<chatHistory, useChat_messages, useChat_isLoading, isLoadingHistory,
              historyLoadedRef, localMessages, useChat_sends>>

todoVars == <<todos, todoIds, todoStorage>>

hostVars == <<storageMode, clock, fresh, status, hookVars, todoVars>>

storeVars == <<sessions, activeSessionId, storedActiveId, storage, named, hostVars>>

chatVars == <<messages, isLoading, isStreaming, isThinking, streamingContent,
              streamingContentRef, progressSteps, showSummary, timers>>

callVars == <<sends, requests, invocations, lastCall>>

vars == <<storeVars, chatVars, callVars>>

\* everything but useChat's state
pageVars == <<sessions, activeSessionId, storedActiveId, storage, named, storageMode,
              clock, fresh, status, todoVars, chatVars, callVars>>

\* everything but the state of Todos
otherPagesVars == <<sessions, activeSessionId, storedActiveId, storage, named, storageMode,
                    clock, fresh, status, hookVars, chatVars, callVars>>

(* ------------------------------------------------------------------ *)
(* Session store                                                      *)
(* ------------------------------------------------------------------ *)

Welcome == <<"H", "e", "l", "l", "o", "!", " ", "I", "'", "m", " ", "y", "o", "u", "r", " ", "A", "I", " ", "a", "s", "s", "i", "s", "t", "a", "n", "t", " ", "p", "o", "w", "e", "r", "e", "d", " ", "b", "y", " ", "n", "a", "n", "o", "b", "o", "t", ".", " ", "H", "o", "w", " ", "c", "a", "n", " ", "I", " ", "h", "e", "l", "p", " ", "y", "o", "u", " ", "t", "o", "d", "a", "y", "?">>

\* A Date is its time value in milliseconds; the time value of an invalid
\* Date (NaN) is written -1.
DateOf(ms) == [t |-> "date", ms |-> ms]

InvalidDate == DateOf(-1)

\* new Date()
Now == DateOf(clock)

\* the instant at which the page is loaded
StartInstant == 59999

DecimalDigits == <<"0", "1", "2", "3", "4", "5", "6", "7", "8", "9">>

Digits2(n) == <<DecimalDigits[((n \div 10) % 10) + 1], DecimalDigits[(n % 10) + 1]>>

Digits3(n) == <<DecimalDigits[((n \div 100) % 10) + 1]>> \o Digits2(n)

\* the date and the hour of the instants of the model
IsoDayAndHour == <<"1", "9", "7", "0", "-", "0", "1", "-", "0", "1", "T", "0", "0", ":">>

toISOStringToTheSecond(d) ==
    IsoDayAndHour \o Digits2((d.ms \div 60000) % 60) \o <<":">>
    \o Digits2((d.ms \div 1000) % 60) \o <<".", "0", "0", "0", "Z">>

\* Date.prototype.toISOString, for an instant of the first hour
toISOString(d) ==
    IsoDayAndHour \o Digits2((d.ms \div 60000) % 60) \o <<":">>
    \o Digits2((d.ms \div 1000) % 60) \o <<".">> \o Digits3(d.ms % 1000) \o <<"Z">>

\* Date.prototype.toJSON, as JSON.stringify calls it
DateToJSON(d) == IF d.ms < 0 THEN Null ELSE Str(toISOString(d))

IsDigit(c) == \E k \in 1..10 : DecimalDigits[k] = c

DigitValue(c) == (CHOOSE k \in 1..10 : DecimalDigits[k] = c) - 1

Number2(s, at) == 10 * DigitValue(s[at]) + DigitValue(s[at + 1])

IsIsoText(s) ==
    /\ Len(s) = Len(IsoDayAndHour) + 10
    /\ SubSeq(s, 1, Len(IsoDayAndHour)) = IsoDayAndHour
    /\ \A k \in {15, 16, 18, 19, 21, 22, 23} : IsDigit(s[k])
    /\ s[17] = ":" /\ s[20] = "." /\ s[24] = "Z"
    /\ Number2(s, 15) < 60 /\ Number2(s, 18) < 60

\* new Date(value), of a value JSON.parse produced
NewDate(value) ==
    IF value = Null THEN DateOf(0)
    ELSE IF value.t = "string" /\ IsIsoText(value.s)
    THEN DateOf(60000 * Number2(value.s, 15) + 1000 * Number2(value.s, 18)
                + 100 * DigitValue(value.s[21]) + Number2(value.s, 22))
    ELSE InvalidDate

createEmptySession(id, agentId) ==
    [id |-> id, name |-> NewConversation, agentId |-> agentId, messages |-> <<>>,
     createdAt |-> Now, updatedAt |-> Now]

Message(role, content, toolCalls) ==
    [role |-> role, content |-> content, toolCalls |-> toolCalls, timestamp |-> Now]

\* the welcome message, dated when the module was loaded
DEFAULT_MESSAGES ==
    <<[role |-> "assistant", content |-> Welcome, toolCalls |-> Undefined,
       timestamp |-> DateOf(0)]>>

\* content.slice(0, 30) + (content.length > 30 ? '...' : '')
NameFrom(content) ==
    SubSeq(content, 1, IF Len(content) < 30 THEN Len(content) ELSE 30)
    \o (IF Len(content) > 30 THEN Ellipsis ELSE <<>>)

\* sessions.find(s => s.id === id), as the set of its indexes
IndexesOf(ss, id) == {i \in 1..Len(ss) : ss[i].id = id}

HasSession(ss, id) == IndexesOf(ss, id) # {}

Find(ss, id) == ss[CHOOSE i \in IndexesOf(ss, id) : \A j \in IndexesOf(ss, id) : i <= j]

addMessageToSession(ss, sessionId, message) ==
    [i \in 1..Len(ss) |->
        IF ss[i].id = sessionId
        THEN [ss[i] EXCEPT
                !.name = IF Len(ss[i].messages) = 0 /\ message.role = "user"
                         THEN NameFrom(message.content)
                         ELSE @,
                !.messages = Append(@, message),
                !.updatedAt = Now]
        ELSE ss[i]]

updateSessionName(ss, sessionId, name) ==
    [i \in 1..Len(ss) |->
        IF ss[i].id = sessionId THEN [ss[i] EXCEPT !.name = name, !.updatedAt = Now] ELSE ss[i]]

\* the effect on [activeSession?.id]: what Chat displays for a session
Displayed(ss, id) ==
    IF HasSession(ss, id) /\ Len(Find(ss, id).messages) > 0
    THEN Find(ss, id).messages
    ELSE DEFAULT_MESSAGES

SessionIds == {"s1", "s2"}

\* an id that names no session
UnknownId == "s0"

\* no id: the null of activeSessionId and of localStorage.getItem
NoId == "null"

\* the ids generateId produces, in the order in which it produces them
FreshIds == <<"s3", "s4">>

generateId == FreshIds[fresh + 1]

IdsOf(ss) == {ss[n].id : n \in 1..Len(ss)}

NonEmptyIds(ss) == {ss[n].id : n \in {k \in 1..Len(ss) : ss[k].messages # <<>>}}

updateSessionAgent(ss, sessionId, agentId) ==
    [i \in 1..Len(ss) |->
        IF ss[i].id = sessionId THEN [ss[i] EXCEPT !.agentId = agentId, !.updatedAt = Now] ELSE ss[i]]

setSessionMessages(ss, sessionId, msgs) ==
    [i \in 1..Len(ss) |->
        IF ss[i].id = sessionId THEN [ss[i] EXCEPT !.messages = msgs, !.updatedAt = Now] ELSE ss[i]]

clearSessionMessages(ss, sessionId) ==
    [i \in 1..Len(ss) |->
        IF ss[i].id = sessionId THEN [ss[i] EXCEPT !.messages = <<>>, !.updatedAt = Now] ELSE ss[i]]

\* prev.filter(s => s.id !== sessionId)
Without(ss, sessionId) == SelectSeq(ss, LAMBDA x : x.id # sessionId)

(* ------------------------------------------------------------------ *)
(* Persistence                                                        *)
(* ------------------------------------------------------------------ *)

\* The item under STORAGE_KEY: none, a text JSON.stringify did not write, or
\* the text JSON.stringify wrote, held as the JSON value it denotes (dates
\* are in it as their ISO text).
Absent == [t |-> "absent", v |-> <<>>]

StoredText(text) == [t |-> "text", v |-> text]

StoredJson(v) == [t |-> "json", v |-> v]

MessageToJSON(m) ==
    [role |-> m.role, content |-> m.content, toolCalls |-> m.toolCalls,
     timestamp |-> DateToJSON(m.timestamp)]

SessionToJSON(x) ==
    [id |-> x.id, name |-> x.name, agentId |-> x.agentId,
     messages |-> [k \in 1..Len(x.messages) |-> MessageToJSON(x.messages[k])],
     createdAt |-> DateToJSON(x.createdAt), updatedAt |-> DateToJSON(x.updatedAt)]

\* JSON.stringify(sessions)
JSONStringify(ss) == StoredJson([n \in 1..Len(ss) |-> SessionToJSON(ss[n])])

\* ({...msg, timestamp: new Date(msg.timestamp)})
ReviveMessage(j) ==
    [role |-> j.role, content |-> j.content, toolCalls |-> j.toolCalls,
     timestamp |-> NewDate(j.timestamp)]

\* ({...session, createdAt: ..., updatedAt: ..., messages: ...})
ReviveSession(j) ==
    [id |-> j.id, name |-> j.name, agentId |-> j.agentId,
     messages |-> [k \in 1..Len(j.messages) |-> ReviveMessage(j.messages[k])],
     createdAt |-> NewDate(j.createdAt), updatedAt |-> NewDate(j.updatedAt)]

\* the try block of loadSessions throws: getItem does, JSON.parse does, or
\* the parsed value has no map
LoadThrows(item) ==
    \/ storageMode = "denied"
    \/ /\ item.t = "text"
       /\ item.v # <<>>
       /\ ~JSONParse(item.v).ok \/ JSONParse(item.v).val.t # "array"

loadSessions(item) ==
    IF LoadThrows(item) \/ item.t # "json"
    THEN <<>>
    ELSE [n \in 1..Len(item.v) |-> ReviveSession(item.v[n])]

\* saveSessions(ss), as the item it leaves: setItem throws when the storage
\* is denied or the collection no longer fits, and the catch swallows it
saveSessions(ss) == IF storageMode = "ok" THEN JSONStringify(ss) ELSE storage

\* the effect on [sessions]
SaveEffect(ss) == IF Len(ss) > 0 THEN saveSessions(ss) ELSE storage

\* setSessions(after), with the effect that saves
Commit(after) ==
    /\ sessions' = after
    /\ storage' = SaveEffect(after)
    /\ named' = (named \cap IdsOf(after)) \cup NonEmptyIds(after)

(* ------------------------------------------------------------------ *)
(* sendMessage                                                        *)
(* ------------------------------------------------------------------ *)

\* The locals of one accepted invocation. pc is its suspension point:
\* "stream" (await fetch('/api/chat/stream')), "read" (await reader.read()),
\* "fallback" (await fetch('/api/chat')), "json" (await res.json()), "done".
\* failed, path, partial, appended and reply record what happened to it:
\* how the streaming request failed, the branch that resolved it, the content
\* buffer when the stream broke, the number of messages its reply added to
\* the transcript of its session, and the content of that reply.
NewSend(content, session) ==
    [pc |-> "stream", content |-> content, sid |-> session.id, agentId |-> session.agentId,
     wasEmpty |-> Len(session.messages) = 0,
     frames |-> <<>>, body |-> <<>>, pos |-> 0, buffer |-> <<>>, cet |-> TypeMessage,
     data |-> Undefined,
     failed |-> "", path |-> "", partial |-> <<>>, appended |-> 0, reply |-> <<>>]

StreamUrl == "/api/chat/stream"

FallbackUrl == "/api/chat"

\* the body of the POST: { message, sessionId, agentId }
Request(url, call, content, sid, agentId) ==
    [url |-> url, call |-> call, message |-> content, sessionId |-> sid, agentId |-> agentId]

FallbackRequestOfActive(i) ==
    Request(FallbackUrl, i, sends[i].content, activeSessionId, sends[i].agentId)

\* the request of the outer catch, from the values sendMessage closed over
FallbackRequest(i) ==
    Request(FallbackUrl, i, sends[i].content, sends[i].sid, sends[i].agentId)

TranscriptLen(ss, id) == IF HasSession(ss, id) THEN Len(Find(ss, id).messages) ELSE 0

\* the finally block
FinallyKeepsProgress ==
    /\ isLoading' = FALSE
    /\ isStreaming' = FALSE
    /\ isThinking' = FALSE
    /\ progressSteps' = progressSteps
    /\ streamingContent' = <<>>

Finally ==
    /\ isLoading' = FALSE
    /\ isStreaming' = FALSE
    /\ isThinking' = FALSE
    /\ progressSteps' = <<>>
    /\ streamingContent' = <<>>

\* setMessages(prev => [...prev, m]); addMessageToSession(activeSession.id, m);
\* then, where the branch has it, the rename of a session that was empty when
\* sendMessage was created, and the acknowledgment with its timer
AppendReplyToActive(i, m, rename, path) ==
    LET sid == activeSessionId
        added == addMessageToSession(sessions, sid, m)
        after == IF rename /\ sends[i].wasEmpty
                 THEN updateSessionName(added, sid, NameFrom(sends[i].content))
                 ELSE added
    IN  /\ messages' = Append(messages, m)
        /\ Commit(after)
        /\ sends' = [sends EXCEPT ![i] =
                        [@ EXCEPT !.pc = "done", !.path = path, !.body = <<>>, !.buffer = <<>>,
                                  !.appended = TranscriptLen(after, sid) - TranscriptLen(sessions, sid),
                                  !.reply = IF TranscriptLen(after, sid) > 0
                                            THEN Find(after, sid).messages[TranscriptLen(after, sid)].content
                                            ELSE <<>>]]

AppendReply(i, m, rename, path) ==
    LET sid == sends[i].sid
        added == addMessageToSession(sessions, sid, m)
        after == IF rename /\ sends[i].wasEmpty
                 THEN updateSessionName(added, sid, NameFrom(sends[i].content))
                 ELSE added
    IN  /\ messages' = Append(messages, m)
        /\ Commit(after)
        /\ sends' = [sends EXCEPT ![i] =
                        [@ EXCEPT !.pc = "done", !.path = path, !.body = <<>>, !.buffer = <<>>,
                                  !.appended = TranscriptLen(after, sid) - TranscriptLen(sessions, sid),
                                  !.reply = IF TranscriptLen(after, sid) > 0
                                            THEN Find(after, sid).messages[TranscriptLen(after, sid)].content
                                            ELSE <<>>]]

Acknowledge ==
    /\ showSummary' = TRUE
    /\ timers' = timers + 1

\* The record of what happened to an invocation is kept until the next one is
\* accepted; from then on only the fact that it resolved is.
Settled(ss) ==
    [i \in 1..Len(ss) |->
        IF ss[i].pc = "done"
        THEN [NewSend(<<>>, createEmptySession(ss[i].sid, "")) EXCEPT !.pc = "done"]
        ELSE ss[i]]

RECURSIVE Pending(_)
Pending(rs) ==
    IF rs = <<>> THEN <<>>
    ELSE IF sends[Head(rs).call].pc = "done" THEN Pending(Tail(rs))
    ELSE <<Head(rs)>> \o Pending(Tail(rs))

\* the guard of sendMessage
Refused(content) ==
    Trim(content) = <<>> \/ isLoading \/ ~HasSession(sessions, activeSessionId)

\* why an invocation returned at once
Refusal(content) ==
    IF Trim(content) = <<>> THEN "blank" ELSE IF isLoading THEN "busy" ELSE "nosession"

MarkLoadingForgotten == isLoading' = isLoading

\* setIsLoading(true)
MarkLoading == isLoading' = TRUE

ResetBufferForgotten == streamingContentRef' = streamingContentRef

\* streamingContentRef.current = ''
ResetBuffer == streamingContentRef' = <<>>

\* sendMessage(content) up to its first await
sendMessage(content) ==
    /\ invocations' = invocations + 1
    /\ IF Refused(content)
       THEN /\ lastCall' = Refusal(content)
            /\ UNCHANGED <<storeVars, chatVars, sends, requests>>
       ELSE LET activeSession == Find(sessions, activeSessionId)
                userMessage == Message("user", Trim(content), Undefined)
            IN  /\ lastCall' = "accepted"
                /\ messages' = Append(messages, userMessage)
                /\ Commit(addMessageToSession(sessions, activeSession.id, userMessage))
                /\ streamingContent' = <<>>
                /\ isStreaming' = FALSE
                /\ isThinking' = FALSE
                /\ ResetBuffer
                /\ MarkLoading
                /\ sends' = Append(Settled(sends), NewSend(Trim(content), activeSession))
                /\ requests' = Append(Pending(requests),
                                  Request(StreamUrl, Len(sends) + 1, Trim(content),
                                          activeSession.id, activeSession.agentId))
                /\ UNCHANGED <<activeSessionId, storedActiveId, hostVars,
                               progressSteps, showSummary, timers>>

\* handleSend with the text of the input box
handleSend(inputValue) ==
    IF Trim(inputValue) = <<>> \/ isLoading
    THEN /\ invocations' = invocations + 1
         /\ lastCall' = Refusal(inputValue)
         /\ UNCHANGED <<storeVars, chatVars, sends, requests>>
    ELSE sendMessage(inputValue)

\* the streaming fetch rejects, or answers with a status that is not 2xx:
\* the outer catch issues the fallback request
StreamFails(i, how) ==
    /\ sends[i].pc = "stream"
    /\ sends' = [sends EXCEPT ![i] = [@ EXCEPT !.pc = "fallback", !.failed = how]]
    /\ requests' = Append(requests, FallbackRequest(i))
    /\ UNCHANGED <<storeVars, chatVars, invocations, lastCall>>

StreamNetworkError(i) == StreamFails(i, "network")

StreamNotOk(i) == StreamFails(i, "status")

\* res.ok with res.body null: the if (res.body) block is skipped
StreamNoBody(i) ==
    /\ sends[i].pc = "stream"
    /\ sends' = [sends EXCEPT ![i] = [@ EXCEPT !.pc = "done", !.path = "nobody"]]
    /\ Finally
    /\ UNCHANGED <<storeVars, messages, streamingContentRef, showSummary, timers,
                   requests, invocations, lastCall>>

\* res.ok with a body: the reader is taken and the loop awaits its first read
StreamOpens(i, bodies) ==
    /\ sends[i].pc = "stream"
    /\ isStreaming' = TRUE
    /\ \E frames \in bodies :
          sends' = [sends EXCEPT ![i] =
                       [@ EXCEPT !.pc = "read", !.frames = frames, !.body = WireText(frames),
                                 !.pos = 0, !.buffer = <<>>, !.cet = TypeMessage]]
    /\ UNCHANGED <<storeVars, messages, isLoading, isThinking, streamingContent,
                   streamingContentRef, progressSteps, showSummary, timers,
                   requests, invocations, lastCall>>

\* the same, where the body ends before the newline of its last line
StreamOpensCut(i, bodies) ==
    /\ sends[i].pc = "stream"
    /\ isStreaming' = TRUE
    /\ \E frames \in bodies \ {<<>>} :
          sends' = [sends EXCEPT ![i] =
                       [@ EXCEPT !.pc = "read", !.frames = frames,
                                 !.body = SubSeq(WireText(frames), 1, Len(WireText(frames)) - 1),
                                 !.pos = 0, !.buffer = <<>>, !.cet = TypeMessage]]
    /\ UNCHANGED <<storeVars, messages, isLoading, isThinking, streamingContent,
                   streamingContentRef, progressSteps, showSummary, timers,
                   requests, invocations, lastCall>>

\* the characters of the body that no read has delivered yet
Left(i) == Len(sends[i].body) - sends[i].pos

\* the characters up to the end of the line the next read starts in
RestOfLine(i) ==
    LET ends == {k \in 1..Left(i) : sends[i].body[sends[i].pos + k] = NL}
    IN  IF ends = {} THEN Left(i) ELSE CHOOSE k \in ends : \A j \in ends : k <= j

\* a read delivers the next k characters of the body
LoopState(i) ==
    [cet |-> sends[i].cet, ref |-> streamingContentRef, sc |-> streamingContent,
     steps |-> progressSteps, thinking |-> isThinking]

Deliver(i, k, r) ==
    /\ sends' = [sends EXCEPT ![i] =
                    [@ EXCEPT !.pos = @ + k, !.buffer = r.buffer, !.cet = r.st.cet]]
    /\ streamingContentRef' = r.st.ref
    /\ streamingContent' = r.st.sc
    /\ progressSteps' = r.st.steps
    /\ isThinking' = r.st.thinking

ReadChunk(i, k) ==
    /\ sends[i].pc = "read"
    /\ k \in 1..Left(i)
    /\ Deliver(i, k, ProcessChunk(LoopState(i), sends[i].buffer,
                                  SubSeq(sends[i].body, sends[i].pos + 1, sends[i].pos + k)))
    /\ UNCHANGED <<storeVars, messages, isLoading, isStreaming, showSummary, timers,
                   requests, invocations, lastCall>>

ReadDoneFlushes(i) ==
    /\ sends[i].pc = "read"
    /\ sends[i].pos = Len(sends[i].body)
    /\ AppendReply(i, Message("assistant",
                              IF ProcessLine(LoopState(i), sends[i].buffer).ref # <<>>
                              THEN ProcessLine(LoopState(i), sends[i].buffer).ref
                              ELSE NoResponse,
                              Undefined),
                   TRUE, "stream")
    /\ Acknowledge
    /\ Finally
    /\ UNCHANGED <<activeSessionId, storedActiveId, hostVars, streamingContentRef,
                   requests, invocations, lastCall>>

\* a read reports done: the reply is built from the content buffer
ReadDone(i) ==
    /\ sends[i].pc = "read"
    /\ sends[i].pos = Len(sends[i].body)
    /\ AppendReply(i, Message("assistant",
                              IF streamingContentRef # <<>> THEN streamingContentRef ELSE NoResponse,
                              Undefined),
                   TRUE, "stream")
    /\ Acknowledge
    /\ Finally
    /\ UNCHANGED <<activeSessionId, storedActiveId, hostVars, streamingContentRef,
                   requests, invocations, lastCall>>

\* a read rejects: the outer catch issues the fallback request
ReadError(i) ==
    /\ sends[i].pc = "read"
    /\ sends' = [sends EXCEPT ![i] =
                    [@ EXCEPT !.pc = "fallback", !.failed = "read",
                              !.partial = streamingContentRef, !.body = <<>>, !.buffer = <<>>]]
    /\ requests' = Append(requests, FallbackRequest(i))
    /\ UNCHANGED <<storeVars, chatVars, invocations, lastCall>>

ApologizeOnScreenOnly(i) ==
    /\ messages' = Append(messages, Message("assistant", Apology, Undefined))
    /\ sends' = [sends EXCEPT ![i] = [@ EXCEPT !.pc = "done", !.path = "apology"]]
    /\ Finally
    /\ UNCHANGED <<storeVars, streamingContentRef, showSummary, timers,
                   requests, invocations, lastCall>>

\* the inner catch: the apology
Apologize(i) ==
    /\ AppendReply(i, Message("assistant", Apology, Undefined), FALSE, "apology")
    /\ Finally
    /\ UNCHANGED <<activeSessionId, storedActiveId, hostVars, streamingContentRef,
                   showSummary, timers, requests, invocations, lastCall>>

FallbackNetworkError(i) == sends[i].pc = "fallback" /\ Apologize(i)

FallbackNotOk(i) == sends[i].pc = "fallback" /\ Apologize(i)

\* the JSON bodies the fallback endpoint may answer with; Undefined stands
\* for a body res.json() rejects
FallbackBodies ==
    {Undefined,
     Obj(<<<<KeyResponse, Str(<<"r">>)>>>>),
     Obj(<<<<KeyResponse, Str(<<>>)>>, <<KeyMessage, Str(<<"m">>)>>,
           <<KeyToolCalls, Arr(<<Obj(<<<<<<"n", "a", "m", "e">>, Str(<<"g">>)>>>>)>>)>>>>),
     Obj(<<>>)}

\* the fallback answers 2xx: its body is awaited
FallbackOk(i) ==
    /\ sends[i].pc = "fallback"
    /\ \E data \in FallbackBodies :
          sends' = [sends EXCEPT ![i] = [@ EXCEPT !.pc = "json", !.data = data]]
    /\ UNCHANGED <<storeVars, chatVars, requests, invocations, lastCall>>

\* res.json() rejects: the body was not JSON
JsonError(i) == sends[i].pc = "json" /\ sends[i].data = Undefined /\ Apologize(i)

FallbackContentAfterPartial(data) ==
    IF streamingContentRef # <<>>
    THEN streamingContentRef
    ELSE ToStr(OrElse(OrElse(Get(data, KeyResponse), Get(data, KeyMessage)), Str(NoResponse)))

\* data.response || data.message || 'No response'
FallbackContent(data) ==
    ToStr(OrElse(OrElse(Get(data, KeyResponse), Get(data, KeyMessage)), Str(NoResponse)))

\* res.json() resolves
JsonOk(i) ==
    /\ sends[i].pc = "json"
    /\ sends[i].data # Undefined
    /\ AppendReply(i, Message("assistant", FallbackContent(sends[i].data),
                              Get(sends[i].data, KeyToolCalls)),
                   TRUE, "fallback")
    /\ Acknowledge
    /\ Finally
    /\ UNCHANGED <<activeSessionId, storedActiveId, hostVars, streamingContentRef,
                   requests, invocations, lastCall>>

\* a timer of the acknowledgment fires
SummaryTimeout ==
    /\ timers > 0
    /\ timers' = timers - 1
    /\ showSummary' = FALSE
    /\ UNCHANGED <<storeVars, messages, isLoading, isStreaming, isThinking, streamingContent,
                   streamingContentRef, progressSteps, callVars>>

\* switchSession(sessionId), and Chat's effect on [activeSession?.id]
switchSession(sessionId) ==
    /\ status = "running"
    /\ activeSessionId' = sessionId
    /\ storedActiveId' = sessionId
    /\ messages' = IF (HasSession(sessions, sessionId) \/ HasSession(sessions, activeSessionId))
                      /\ sessionId # activeSessionId
                   THEN Displayed(sessions, sessionId)
                   ELSE messages
    /\ UNCHANGED <<sessions, storage, named, hostVars, isLoading, isStreaming, isThinking,
                   streamingContent, streamingContentRef, progressSteps, showSummary, timers,
                   callVars>>

(* ------------------------------------------------------------------ *)
(* SessionProvider                                                    *)
(* ------------------------------------------------------------------ *)

\* activeSession?.id
ActiveKey(ss, id) == IF HasSession(ss, id) THEN id ELSE NoId

\* Chat's effect on [activeSession?.id], after the store has gone to ss and id
ShowActive(ss, id) ==
    messages' = IF ActiveKey(ss, id) # ActiveKey(sessions, activeSessionId)
                THEN Displayed(ss, id)
                ELSE messages

\* the mount effect found stored sessions
MountLoaded(loaded) ==
    /\ Commit(loaded)
    /\ activeSessionId' = IF HasSession(loaded, storedActiveId)
                          THEN storedActiveId
                          ELSE loaded[1].id
    /\ status' = "running"
    /\ ShowActive(loaded, activeSessionId')
    /\ UNCHANGED <<storedActiveId, fresh>>

MountEmptyCreatesNone(initialSession) ==
    /\ status' = "running"
    /\ UNCHANGED <<sessions, storage, named, activeSessionId, storedActiveId, messages, fresh>>

\* the mount effect found none: it creates the initial session, and its
\* unguarded setItem throws out of the effect when the storage is denied
MountEmpty(initialSession) ==
    /\ fresh < Len(FreshIds)
    /\ fresh' = fresh + 1
    /\ IF storageMode = "denied"
       THEN /\ status' = "crashed"
            /\ UNCHANGED <<sessions, storage, named, activeSessionId, storedActiveId, messages>>
       ELSE /\ sessions' = <<initialSession>>
            /\ named' = {}
            /\ activeSessionId' = initialSession.id
            /\ storage' = saveSessions(<<initialSession>>)
            /\ storedActiveId' = initialSession.id
            /\ status' = "running"
            /\ ShowActive(<<initialSession>>, initialSession.id)

\* the effect that loads the sessions on mount
Mount ==
    /\ status = "unmounted"
    /\ IF Len(loadSessions(storage)) > 0
       THEN MountLoaded(loadSessions(storage))
       ELSE MountEmpty(createEmptySession(generateId, "default"))
    /\ UNCHANGED <<storageMode, clock, hookVars, todoVars, isLoading, isStreaming, isThinking,
                   streamingContent, streamingContentRef, progressSteps, showSummary, timers,
                   callVars>>

\* a millisecond passes
Elapse ==
    /\ clock < StartInstant + MaxTicks
    /\ clock' = clock + 1

\* the page is loaded again, with no sendMessage to abandon: the state in
\* memory is gone, localStorage stays
Reload ==
    /\ status = "running"
    /\ sends = <<>>
    /\ status' = "unmounted"
    /\ sessions' = <<>>
    /\ activeSessionId' = NoId
    /\ messages' = DEFAULT_MESSAGES
    /\ Elapse
    /\ UNCHANGED <<storedActiveId, storage, named, storageMode, fresh, hookVars, todoVars,
                   isLoading, isStreaming, isThinking, streamingContent,
                   streamingContentRef, progressSteps, showSummary, timers, callVars>>

\* what no operation of the store touches, and the time it takes
StoreFrame ==
    /\ Elapse
    /\ UNCHANGED <<storageMode, status, hookVars, todoVars, isLoading, isStreaming, isThinking,
                   streamingContent, streamingContentRef, progressSteps, showSummary, timers,
                   callVars>>

createSessionAtEnd(agentId) ==
    /\ status = "running"
    /\ fresh < Len(FreshIds)
    /\ fresh' = fresh + 1
    /\ Commit(Append(sessions, createEmptySession(generateId, agentId)))
    /\ activeSessionId' = generateId
    /\ storedActiveId' = generateId
    /\ ShowActive(sessions', generateId)
    /\ StoreFrame

createSession(agentId) ==
    /\ status = "running"
    /\ fresh < Len(FreshIds)
    /\ fresh' = fresh + 1
    /\ Commit(<<createEmptySession(generateId, agentId)>> \o sessions)
    /\ activeSessionId' = generateId
    /\ storedActiveId' = generateId
    /\ ShowActive(sessions', generateId)
    /\ StoreFrame

DeleteLastKeepsPointer(newSession) ==
    /\ fresh < Len(FreshIds)
    /\ fresh' = fresh + 1
    /\ Commit(<<newSession>>)
    /\ UNCHANGED <<activeSessionId, storedActiveId>>

\* deleteSession when the filter leaves nothing
DeleteLast(newSession) ==
    /\ fresh < Len(FreshIds)
    /\ fresh' = fresh + 1
    /\ Commit(<<newSession>>)
    /\ activeSessionId' = newSession.id
    /\ storedActiveId' = newSession.id

\* deleteSession when the filter leaves some
DeleteOne(filtered, sessionId) ==
    /\ Commit(filtered)
    /\ activeSessionId' = IF activeSessionId = sessionId THEN filtered[1].id ELSE activeSessionId
    /\ storedActiveId' = IF activeSessionId = sessionId THEN filtered[1].id ELSE storedActiveId
    /\ UNCHANGED fresh

deleteSession(sessionId) ==
    /\ status = "running"
    /\ IF Len(Without(sessions, sessionId)) = 0
       THEN DeleteLast(createEmptySession(generateId, "default"))
       ELSE DeleteOne(Without(sessions, sessionId), sessionId)
    /\ ShowActive(sessions', activeSessionId')
    /\ StoreFrame

\* an operation that maps the collection and leaves the pointer alone
MapSessions(after) ==
    /\ status = "running"
    /\ Commit(after)
    /\ UNCHANGED <<activeSessionId, storedActiveId, fresh, messages>>
    /\ StoreFrame

UpdateName(sessionId, name) == MapSessions(updateSessionName(sessions, sessionId, name))

UpdateAgent(sessionId, agentId) == MapSessions(updateSessionAgent(sessions, sessionId, agentId))

AddMessage(sessionId, message) == MapSessions(addMessageToSession(sessions, sessionId, message))

SetMessages(sessionId, msgs) == MapSessions(setSessionMessages(sessions, sessionId, msgs))

ClearMessages(sessionId) == MapSessions(clearSessionMessages(sessions, sessionId))

\* App: the button that creates a session
handleNewSession ==
    createSession(IF HasSession(sessions, activeSessionId)
                  THEN Find(sessions, activeSessionId).agentId
                  ELSE "default")

\* App: the button and the menu entry that delete a session
handleDeleteSession(sessionId) == Len(sessions) > 1 /\ deleteSession(sessionId)

\* Chat: the button that clears the history
handleClearHistory ==
    /\ status = "running"
    /\ IF HasSession(sessions, activeSessionId)
       THEN Commit(clearSessionMessages(sessions, activeSessionId))
       ELSE UNCHANGED <<sessions, storage, named>>
    /\ messages' = DEFAULT_MESSAGES
    /\ UNCHANGED <<activeSessionId, storedActiveId, fresh>>
    /\ StoreFrame

(* ------------------------------------------------------------------ *)
(* useChat: the cached transcript and the backend's history           *)
(* ------------------------------------------------------------------ *)

WelcomeId == <<"w", "e", "l", "c", "o", "m", "e">>

\* String(n), of a natural number
RECURSIVE Decimal(_)
Decimal(n) ==
    IF n < 10 THEN <<DecimalDigits[n + 1]>>
    ELSE Decimal(n \div 10) \o <<DecimalDigits[(n % 10) + 1]>>

\* `msg-${n}`
MsgId(n) == <<"m", "s", "g", "-">> \o Decimal(n)

\* what Math.random().toString(36).substring(2, 9) may give
RandomTexts == {<<"k", "7">>, <<"z">>}

ChatMessage(id, role, content, timestamp) ==
    [id |-> id, role |-> role, content |-> content, toolCalls |-> Undefined,
     timestamp |-> timestamp]

\* the welcome message, dated when the module was loaded
useChat_DEFAULT_MESSAGES == <<ChatMessage(WelcomeId, "assistant", Welcome, DateOf(0))>>

ChatMessageToJSON(m) ==
    [id |-> m.id, role |-> m.role, content |-> m.content, toolCalls |-> m.toolCalls,
     timestamp |-> DateToJSON(m.timestamp)]

\* ({...msg, timestamp: new Date(msg.timestamp)})
ReviveChatMessage(j) ==
    [id |-> j.id, role |-> j.role, content |-> j.content, toolCalls |-> j.toolCalls,
     timestamp |-> NewDate(j.timestamp)]

\* JSON.stringify(messages)
StringifyMessages(ms) == StoredJson([k \in 1..Len(ms) |-> ChatMessageToJSON(ms[k])])

\* loadMessages(): the default when nothing is stored, the stored text is
\* empty, or getItem, JSON.parse or parsed.map throws
loadMessages(item) ==
    IF LoadThrows(item) \/ item.t # "json"
    THEN useChat_DEFAULT_MESSAGES
    ELSE [k \in 1..Len(item.v) |-> ReviveChatMessage(item.v[k])]

\* saveMessages(ms), as the item it leaves; the catch swallows what setItem
\* throws
saveMessages(ms) == IF storageMode = "ok" THEN StringifyMessages(ms) ELSE chatHistory

\* a message of the backend's reply: role, content and an optional timestamp
WireMessage(role, content, timestamp) ==
    [role |-> role, content |-> content, timestamp |-> timestamp]

\* msg.timestamp ? new Date(msg.timestamp) : new Date()
WireDate(timestamp) == IF timestamp = Undefined THEN Now ELSE NewDate(timestamp)

\* loadHistory's data.messages.map(...), where randoms[k] is the random text
\* of the k-th id
loadHistory(wire, randoms) ==
    [k \in 1..Len(wire) |->
        ChatMessage(MsgId(clock) \o <<"_">> \o randoms[k], wire[k].role, wire[k].content,
                    WireDate(wire[k].timestamp))]

\* new Set(backendMessages.map(m => m.content.trim())).has(m.content.trim())
InContentSet(backend, m) ==
    \E k \in 1..Len(backend) : Trim(backend[k].content) = Trim(m.content)

IsLocalOnly(backend, m) == m.id # WelcomeId /\ ~InContentSet(backend, m)

RECURSIVE Filter(_, _)
Filter(local, backend) ==
    IF local = <<>> THEN <<>>
    ELSE (IF IsLocalOnly(backend, Head(local)) THEN <<Head(local)>> ELSE <<>>)
         \o Filter(Tail(local), backend)

mergeMessages(backend, local) ==
    IF Len(local) = 1 /\ local[1].id = WelcomeId
    THEN (IF Len(backend) > 0 THEN backend ELSE local)
    ELSE backend \o Filter(local, backend)

\* the effect on mount: it runs once, and initChat reads the cached
\* transcript before it awaits loadHistory
useChatMount ==
    /\ ~historyLoadedRef
    /\ historyLoadedRef' = TRUE
    /\ useChat_messages' = loadMessages(chatHistory)
    /\ localMessages' = loadMessages(chatHistory)
    /\ isLoadingHistory' = TRUE
    /\ UNCHANGED <<chatHistory, useChat_isLoading, useChat_sends, pageVars>>

\* initChat after loadHistory resolved with backendMessages
initChat(backendMessages) ==
    /\ historyLoadedRef
    /\ isLoadingHistory
    /\ IF Len(backendMessages) > 0
       THEN /\ useChat_messages' = mergeMessages(backendMessages, localMessages)
            /\ chatHistory' = saveMessages(mergeMessages(backendMessages, localMessages))
       ELSE UNCHANGED <<useChat_messages, chatHistory>>
    /\ isLoadingHistory' = FALSE
    /\ UNCHANGED <<historyLoadedRef, localMessages, useChat_isLoading, useChat_sends, pageVars>>

\* useChat's sendMessage, up to its first await: the user message is
\* appended and saved
useChat_sendMessage(content) ==
    /\ historyLoadedRef
    /\ Trim(content) # <<>>
    /\ ~useChat_isLoading
    /\ useChat_messages' =
          Append(useChat_messages, ChatMessage(MsgId(clock), "user", Trim(content), Now))
    /\ chatHistory' = saveMessages(useChat_messages')
    /\ useChat_isLoading' = TRUE
    /\ useChat_sends' = useChat_sends + 1
    /\ UNCHANGED <<historyLoadedRef, localMessages, isLoadingHistory, pageVars>>

\* useChat's sendMessage, from the reply to its end: the assistant message
\* (the reply's, or the apology) is appended and saved
useChat_reply(content) ==
    /\ useChat_isLoading
    /\ useChat_messages' =
          Append(useChat_messages, ChatMessage(MsgId(clock + 1), "assistant", content, Now))
    /\ chatHistory' = saveMessages(useChat_messages')
    /\ useChat_isLoading' = FALSE
    /\ UNCHANGED <<historyLoadedRef, localMessages, isLoadingHistory, useChat_sends, pageVars>>

\* the hook is not mounted and has stored nothing
NoHook ==
    /\ chatHistory = Absent
    /\ useChat_messages = <<>>
    /\ useChat_isLoading = FALSE
    /\ isLoadingHistory = TRUE
    /\ historyLoadedRef = FALSE
    /\ localMessages = <<>>
    /\ useChat_sends = 0

(* ------------------------------------------------------------------ *)
(* Todos (src/src/pages/Todos.tsx)                                    *)
(* ------------------------------------------------------------------ *)

\* the UTF-16 code unit of a character of a date text
CodeUnit(c) ==
    IF c = "-" THEN 45
    ELSE 48 + (CHOOSE d \in 0..9 : DecimalDigits[d + 1] = c)

\* a < b of two strings
RECURSIVE StringLess(_, _)
StringLess(a, b) ==
    IF b = <<>> THEN FALSE
    ELSE IF a = <<>> THEN TRUE
    ELSE IF Head(a) # Head(b) THEN CodeUnit(Head(a)) < CodeUnit(Head(b))
    ELSE StringLess(Tail(a), Tail(b))

\* date.toISOString().split('T')[0], of a date of January 1970
getDateString(date) == <<"1", "9", "7", "0", "-", "0", "1", "-">>
                       \o Digits2((date.ms \div (24 * 60 * 60 * 1000)) + 1)

getTodayString == getDateString(Now)

\* tomorrow.setDate(tomorrow.getDate() + 1)
getTomorrowString == getDateString(DateOf(clock + 24 * 60 * 60 * 1000))

\* the five filters of groupTodos
InExpired(t) ==
    Truthy(t.dueDate) /\ StringLess(t.dueDate.s, getTodayString) /\ ~t.completed

InExpiredThoughCompleted(t) ==
    Truthy(t.dueDate) /\ StringLess(t.dueDate.s, getTodayString)

InToday(t) == t.dueDate = Str(getTodayString)

InTomorrow(t) == t.dueDate = Str(getTomorrowString)

InLater(t) == Truthy(t.dueDate) /\ StringLess(getTomorrowString, t.dueDate.s)

InNoDate(t) == ~Truthy(t.dueDate)

groupTodos(ts) ==
    [expired |-> SelectSeq(ts, InExpired),
     today |-> SelectSeq(ts, InToday),
     tomorrow |-> SelectSeq(ts, InTomorrow),
     later |-> SelectSeq(ts, InLater),
     noDate |-> SelectSeq(ts, InNoDate)]

\* the list of Todos: the groups in the order they are rendered in
Rendered(ts) ==
    groupTodos(ts).expired \o groupTodos(ts).today \o groupTodos(ts).tomorrow
    \o groupTodos(ts).later \o groupTodos(ts).noDate

\* newTodoDate || undefined
DateOrUndefined(text) == IF text = <<>> THEN Undefined ELSE Str(text)

\* Todos' generateId, modelled as never repeating
TodoId(n) == <<"t">> \o Decimal(n)

\* JSON.stringify(todos), held as the JSON value it denotes: a member that
\* is undefined is left out
TodoToJSON(t) ==
    IF t.dueDate = Undefined
    THEN [id |-> t.id, title |-> t.title, completed |-> t.completed,
          createdAt |-> t.createdAt, updatedAt |-> t.updatedAt]
    ELSE [id |-> t.id, title |-> t.title, completed |-> t.completed, dueDate |-> t.dueDate.s,
          createdAt |-> t.createdAt, updatedAt |-> t.updatedAt]

\* setTodos and the effect on [todos] that saves them
SetTodos(after) ==
    /\ todos' = after
    /\ todoStorage' = StoredJson([n \in 1..Len(after) |-> TodoToJSON(after[n])])

addTodo(newTodoTitle, newTodoDate) ==
    /\ todoIds < MaxTodos
    /\ IF Trim(newTodoTitle) = <<>>
       THEN UNCHANGED todoVars
       ELSE /\ todoIds' = todoIds + 1
            /\ SetTodos(Append(todos, [id |-> TodoId(todoIds + 1),
                                       title |-> Trim(newTodoTitle),
                                       completed |-> FALSE,
                                       dueDate |-> DateOrUndefined(newTodoDate),
                                       createdAt |-> toISOString(Now),
                                       updatedAt |-> toISOString(Now)]))
    /\ UNCHANGED otherPagesVars

toggleTodo(id) ==
    /\ SetTodos([n \in 1..Len(todos) |->
                    IF todos[n].id = id
                    THEN [todos[n] EXCEPT !.completed = ~todos[n].completed,
                                          !.updatedAt = toISOString(Now)]
                    ELSE todos[n]])
    /\ UNCHANGED <<todoIds, otherPagesVars>>

deleteTodo(id) ==
    /\ SetTodos(SelectSeq(todos, LAMBDA t : t.id # id))
    /\ UNCHANGED <<todoIds, otherPagesVars>>

saveEdit(editingId, editTitle, editDate) ==
    /\ IF Trim(editTitle) = <<>>
       THEN UNCHANGED <<todos, todoStorage>>
       ELSE SetTodos([n \in 1..Len(todos) |->
                         IF todos[n].id = editingId
                         THEN [todos[n] EXCEPT !.title = Trim(editTitle),
                                               !.dueDate = DateOrUndefined(editDate),
                                               !.updatedAt = toISOString(Now)]
                         ELSE todos[n]])
    /\ UNCHANGED <<todoIds, otherPagesVars>>

\* Todos is mounted over an empty localStorage and has saved its empty list
NoTodos ==
    /\ todos = <<>>
    /\ todoIds = 0
    /\ todoStorage = StoredJson(<<>>)

(* ------------------------------------------------------------------ *)
(* Inputs and specifications                                          *)
(* ------------------------------------------------------------------ *)

\* what the input box may hold
InputValues == {<<" ">>, <<" ", "h", "i", " ">>}

\* the provider has loaded two stored sessions
Init ==
    /\ clock = StartInstant
    /\ storageMode = "ok"
    /\ NoHook
    /\ NoTodos
    /\ fresh = 0
    /\ status = "running"
    /\ named = {}
    /\ sessions = <<createEmptySession("s1", "default"), createEmptySession("s2", "coder")>>
    /\ storage = JSONStringify(sessions)
    /\ activeSessionId = "s1"
    /\ storedActiveId = "s1"
    /\ messages = DEFAULT_MESSAGES
    /\ isLoading = FALSE
    /\ isStreaming = FALSE
    /\ isThinking = FALSE
    /\ streamingContent = <<>>
    /\ streamingContentRef = <<>>
    /\ progressSteps = <<>>
    /\ showSummary = FALSE
    /\ timers = 0
    /\ sends = <<>>
    /\ requests = <<>>
    /\ invocations = 0
    /\ lastCall = "none"

Calls == 1..Len(sends)

Next ==
    \/ \E v \in InputValues : invocations < MaxSends /\ handleSend(v)
    \/ \E i \in Calls : StreamNetworkError(i)
    \/ \E i \in Calls : StreamNotOk(i)
    \/ \E i \in Calls : StreamNoBody(i)
    \/ \E i \in Calls : StreamOpens(i, Bodies)
    \/ \E i \in Calls : ReadChunk(i, RestOfLine(i))
    \/ \E i \in Calls : ReadChunk(i, Left(i))
    \/ \E i \in Calls : ReadDone(i)
    \/ \E i \in Calls : ReadError(i)
    \/ \E i \in Calls : FallbackNetworkError(i)
    \/ \E i \in Calls : FallbackNotOk(i)
    \/ \E i \in Calls : FallbackOk(i)
    \/ \E i \in Calls : JsonError(i)
    \/ \E i \in Calls : JsonOk(i)
    \/ \E id \in SessionIds \cup {UnknownId} : switchSession(id)

Spec == Init /\ [][Next]_vars

\* a session as an earlier visit left it in the storage
SessionAt(id, agentId, name, msgs, createdAt, updatedAt) ==
    [id |-> id, name |-> name, agentId |-> agentId, messages |-> msgs,
     createdAt |-> DateOf(createdAt), updatedAt |-> DateOf(updatedAt)]

Hi == <<"h", "i">>

\* a text of 31 characters
LongText == <<"a", "b", "c", "d", "e", "f", "g", "h", "i", "j", "k", "l", "m", "n", "o", "p", "q", "r", "s", "t", "u", "v", "w", "x", "y", "z", "0", "1", "2", "3", "4">>

Ok == <<"o", "k">>

MessageAt(role, content, timestamp) ==
    [role |-> role, content |-> content, toolCalls |-> Undefined, timestamp |-> DateOf(timestamp)]

\* what localStorage may hold when the page is loaded: the items under the
\* two keys and how the storage behaves
Visits ==
    {[item |-> Absent, pointer |-> NoId, mode |-> "ok"],
     [item |-> Absent, pointer |-> NoId, mode |-> "full"],
     [item |-> Absent, pointer |-> NoId, mode |-> "denied"],
     [item |-> StoredText(<<>>), pointer |-> "s1", mode |-> "ok"],
     [item |-> StoredText(<<"[", "{", QUOTE, "i", "d">>), pointer |-> "s1", mode |-> "ok"],
     [item |-> StoredText(<<"{", "}">>), pointer |-> NoId, mode |-> "ok"],
     [item |-> JSONStringify(<<SessionAt("s1", "default", NewConversation, <<>>, 58001, 58001)>>),
      pointer |-> "s1", mode |-> "ok"],
     [item |-> JSONStringify(<<SessionAt("s1", "default", Hi,
                                         <<MessageAt("user", Hi, 58002)>>, 58001, 58002),
                               SessionAt("s2", "coder", NewConversation, <<>>, 58003, 58003)>>),
      pointer |-> UnknownId, mode |-> "full"]}

\* the page is being loaded
InitStore ==
    /\ clock = StartInstant
    /\ fresh = 0
    /\ NoHook
    /\ NoTodos
    /\ status = "unmounted"
    /\ named = {}
    /\ sessions = <<>>
    /\ activeSessionId = NoId
    /\ \E visit \in Visits :
          /\ storage = visit.item
          /\ storedActiveId = visit.pointer
          /\ storageMode = visit.mode
    /\ messages = DEFAULT_MESSAGES
    /\ isLoading = FALSE
    /\ isStreaming = FALSE
    /\ isThinking = FALSE
    /\ streamingContent = <<>>
    /\ streamingContentRef = <<>>
    /\ progressSteps = <<>>
    /\ showSummary = FALSE
    /\ timers = 0
    /\ sends = <<>>
    /\ requests = <<>>
    /\ invocations = 0
    /\ lastCall = "none"

\* the ids an operation of the store may be given
GivenIds == IdsOf(sessions) \cup {UnknownId}

\* the store alone, from the loading of the page
NextStore ==
    \/ Mount
    \/ Reload
    \/ \E agentId \in {"coder"} : createSession(agentId)
    \/ \E id \in GivenIds : switchSession(id)
    \/ \E id \in GivenIds : deleteSession(id)
    \/ \E id \in GivenIds : UpdateName(id, <<"n">>)
    \/ \E id \in GivenIds : UpdateAgent(id, "writer")
    \/ \E id \in GivenIds : \E m \in {Message("user", Hi, Undefined),
                                       Message("user", LongText, Undefined),
                                       Message("assistant", Ok, Undefined)} :
          TranscriptLen(sessions, id) < MaxMessages /\ AddMessage(id, m)
    \/ \E id \in GivenIds : SetMessages(id, <<Message("assistant", Ok, Undefined)>>)
    \/ \E id \in GivenIds : ClearMessages(id)

SpecStore == InitStore /\ [][NextStore]_vars

\* a message of a transcript that an earlier visit cached
CachedAt(role, content, at) == ChatMessage(MsgId(at), role, content, DateOf(at))

Yo == <<"y", "o">>

CachedVocab ==
    {CachedAt("user", Hi, 58001), CachedAt("assistant", Ok \o <<NL>>, 58002),
     CachedAt("user", Yo, 58003)}

\* the cached transcripts: with the welcome message in front or, as a
\* reconciliation leaves them, without it
CachedTranscripts ==
    {head \o rest : head \in {<<>>, useChat_DEFAULT_MESSAGES},
                    rest \in SeqsUpTo(CachedVocab, MaxLocal)}

\* what localStorage may hold under useChat's key when the hook is mounted;
\* a text that is held as StoredText is not the text of an array
CachedItems ==
    {Absent, StoredText(<<>>), StoredText(<<"[", "{", QUOTE, "i", "d">>)}
    \cup {StringifyMessages(t) : t \in CachedTranscripts}

WireVocab ==
    {WireMessage("user", Hi, Str(toISOString(DateOf(58001)))),
     WireMessage("assistant", Ok, Undefined),
     WireMessage("assistant", <<" ">> \o Yo, Undefined)}

\* the histories the backend may reply with that hold messages
Histories == SeqsUpTo(WireVocab, MaxBackend) \ {<<>>}

\* the hook is being mounted
InitMerge ==
    /\ clock = StartInstant
    /\ NoTodos
    /\ fresh = 0
    /\ status = "unmounted"
    /\ named = {}
    /\ sessions = <<>>
    /\ activeSessionId = NoId
    /\ storage = Absent
    /\ storedActiveId = NoId
    /\ storageMode \in {"ok", "denied"}
    /\ chatHistory \in CachedItems
    /\ useChat_messages = <<>>
    /\ useChat_isLoading = FALSE
    /\ isLoadingHistory = TRUE
    /\ historyLoadedRef = FALSE
    /\ localMessages = <<>>
    /\ useChat_sends = 0
    /\ messages = DEFAULT_MESSAGES
    /\ isLoading = FALSE
    /\ isStreaming = FALSE
    /\ isThinking = FALSE
    /\ streamingContent = <<>>
    /\ streamingContentRef = <<>>
    /\ progressSteps = <<>>
    /\ showSummary = FALSE
    /\ timers = 0
    /\ sends = <<>>
    /\ requests = <<>>
    /\ invocations = 0
    /\ lastCall = "none"

\* the hook alone: the reconciliation on mount, and a send beside it
NextMerge ==
    \/ useChatMount
    \/ \E wire \in Histories : \E randoms \in [1..Len(wire) -> RandomTexts] :
          initChat(loadHistory(wire, randoms))
    \/ initChat(<<>>)
    \/ \E content \in InputValues :
          useChat_sends < MaxHookSends /\ useChat_sendMessage(content)
    \/ \E content \in {Ok} : useChat_reply(content)

SpecMerge == InitMerge /\ [][NextMerge]_vars

\* one send whose response body is any sequence of frames
NextStream ==
    \/ \E v \in InputValues : invocations < 1 /\ handleSend(v)
    \/ \E i \in Calls : StreamOpens(i, Streams)
    \/ \E i \in Calls : ReadChunk(i, RestOfLine(i))
    \/ \E i \in Calls : ReadChunk(i, Left(i))
    \/ \E i \in Calls : ReadDone(i)
    \/ SummaryTimeout

SpecStream == Init /\ [][NextStream]_vars

\* one send whose response body holds frames the backend should not send,
\* or ends in the middle of a line
NextEdge ==
    \/ \E v \in InputValues : invocations < 1 /\ handleSend(v)
    \/ \E i \in Calls : StreamOpens(i, EdgeStreams)
    \/ \E i \in Calls : StreamOpensCut(i, EdgeStreams)
    \/ \E i \in Calls : ReadChunk(i, RestOfLine(i))
    \/ \E i \in Calls : ReadChunk(i, Left(i))
    \/ \E i \in Calls : ReadDone(i)

SpecEdge == Init /\ [][NextEdge]_vars

\* the first send of a page beside the buttons that switch, create, delete and
\* clear sessions
NextRace ==
    \/ \E v \in InputValues : invocations = 0 /\ handleSend(v)
    \/ \E i \in Calls : StreamNotOk(i)
    \/ \E i \in Calls : StreamOpens(i, Bodies)
    \/ \E i \in Calls : ReadChunk(i, Left(i))
    \/ \E i \in Calls : ReadDone(i)
    \/ \E i \in Calls : FallbackNotOk(i)
    \/ \E i \in Calls : FallbackOk(i)
    \/ \E i \in Calls : JsonError(i)
    \/ \E i \in Calls : JsonOk(i)
    \/ \E id \in GivenIds : switchSession(id)
    \/ handleNewSession
    \/ \E id \in IdsOf(sessions) : handleDeleteSession(id)
    \/ handleClearHistory

SpecRace == Init /\ [][NextRace]_vars

\* what the date inputs of Todos hold: nothing, yesterday, today, tomorrow, the
\* day after tomorrow
DateInputs ==
    {<<>>,
     <<"1", "9", "6", "9", "-", "1", "2", "-", "3", "1">>,
     getTodayString,
     getTomorrowString,
     getDateString(DateOf(clock + 2 * 24 * 60 * 60 * 1000))}

TitleInputs == {<<" ">>, <<" ", "a">>, <<"b", " ">>}

IdsOfTodos == {todos[n].id : n \in 1..Len(todos)}

\* the buttons of Todos
NextTodos ==
    \/ \E title \in TitleInputs : \E date \in DateInputs : addTodo(title, date)
    \/ \E id \in IdsOfTodos : toggleTodo(id)
    \/ \E id \in IdsOfTodos : deleteTodo(id)
    \/ \E id \in IdsOfTodos : \E title \in TitleInputs : \E date \in DateInputs :
          saveEdit(id, title, date)

SpecTodos == Init /\ [][NextTodos]_vars

\* one send whose response body arrives split at any character
NextSplit ==
    \/ \E v \in InputValues : invocations < 1 /\ handleSend(v)
    \/ \E i \in Calls : StreamOpens(i, SplitStreams)
    \/ \E i \in Calls : \E k \in 1..MaxChunk : ReadChunk(i, k)
    \/ \E i \in Calls : ReadChunk(i, Left(i))
    \/ \E i \in Calls : ReadDone(i)

SpecSplit == Init /\ [][NextSplit]_vars

(* ------------------------------------------------------------------ *)
(* Properties of sendMessage                                          *)
(* ------------------------------------------------------------------ *)

\* the invocations whose record is still kept
Recorded == {i \in Calls : sends[i].pc # "done" \/ sends[i].path # ""}

Resolved == {i \in Recorded : sends[i].pc = "done"}

InFlight == {i \in Calls : sends[i].pc # "done"}

StreamRequests(i) ==
    {n \in 1..Len(requests) : requests[n].call = i /\ requests[n].url = StreamUrl}

FallbackRequests(i) ==
    {n \in 1..Len(requests) : requests[n].call = i /\ requests[n].url = FallbackUrl}

SamePayload(a, b) ==
    a.message = b.message /\ a.sessionId = b.sessionId /\ a.agentId = b.agentId

\* C1: every accepted send, however the streaming request and the fallback
\* request end, resolves with exactly one assistant message appended to the
\* transcript of its session.
C1_EverySendReplies ==
    \A i \in Resolved : sends[i].appended = 1

\* C2, as claimed: when the stream breaks after content was accumulated, the
\* reply appended is that accumulated content.
C2_PartialContentKept ==
    \A i \in Resolved :
        (sends[i].failed = "read" /\ sends[i].partial # <<>>) => sends[i].reply = sends[i].partial

\* C2, amended: when the stream breaks after content was accumulated, exactly
\* one reply is appended and it is built from the fallback response (its
\* response field, else its message field, else 'No response'), or is the
\* apology when the fallback fails too; the accumulated content is not used.
C2_FallbackReplacesPartial ==
    \A i \in Resolved :
        (sends[i].failed = "read" /\ sends[i].partial # <<>>) =>
            /\ sends[i].appended = 1
            /\ \/ /\ sends[i].path = "apology"
                  /\ sends[i].reply = Apology
               \/ /\ sends[i].path = "fallback"
                  /\ sends[i].reply =
                        IF Truthy(Get(sends[i].data, KeyResponse))
                        THEN Get(sends[i].data, KeyResponse).s
                        ELSE IF Truthy(Get(sends[i].data, KeyMessage))
                        THEN Get(sends[i].data, KeyMessage).s
                        ELSE NoResponse

C2_Witness ==
    \E i \in Resolved :
        /\ sends[i].failed = "read"
        /\ sends[i].partial = <<"x">>
        /\ sends[i].path = "fallback"
        /\ sends[i].reply = <<"r">>

\* C3: at most one send is in flight, the busy flag is set while it is, and an
\* invocation made while the busy flag is set appends no message, issues no
\* request and leaves the content buffer and the partial content alone.
C3_OneSendInFlight ==
    /\ [](Cardinality(InFlight) <= 1 /\ (InFlight # {} => isLoading))
    /\ [][(isLoading /\ invocations' # invocations) =>
            UNCHANGED <<sessions, messages, requests, sends, streamingContentRef,
                        streamingContent, progressSteps, isLoading>>]_vars

C3_Witness ==
    /\ lastCall = "busy"
    /\ Cardinality(InFlight) = 1
    /\ invocations = 2

\* C4: a send whose streaming request failed has issued exactly one request
\* to the fallback endpoint, with the message, sessionId and agentId of its
\* streaming request; a send whose streaming request did not fail has issued
\* none.
C4_OneFallbackRequest ==
    \A i \in Recorded :
        /\ Cardinality(StreamRequests(i)) = 1
        /\ Cardinality(FallbackRequests(i)) = (IF sends[i].failed # "" THEN 1 ELSE 0)
        /\ \A n \in FallbackRequests(i) : \A m \in StreamRequests(i) :
               SamePayload(requests[n], requests[m])

C4_Witness ==
    \E i \in Resolved :
        /\ sends[i].failed = "read"
        /\ Cardinality(FallbackRequests(i)) = 1
        /\ activeSessionId # sends[i].sid

\* C5: when the streaming request and the fallback request both fail, the
\* reply is the apology and the transcript of the session grows by exactly
\* that one message.
C5_ApologyOnce ==
    \A i \in Resolved :
        sends[i].path = "apology" =>
            /\ sends[i].failed # ""
            /\ sends[i].appended = 1
            /\ sends[i].reply = Apology
            /\ LET t == Find(sessions, sends[i].sid).messages
               IN  /\ t[Len(t)] = Message("assistant", Apology, Undefined)
                   /\ Len(t) >= 2
                   /\ t[Len(t) - 1].role = "user"

C5_Witness ==
    \E i \in Resolved :
        /\ sends[i].path = "apology"
        /\ sends[i].failed = "status"
        /\ sends[i].appended = 1

(* ------------------------------------------------------------------ *)
(* Properties of the read loop                                        *)
(* ------------------------------------------------------------------ *)

Reading == {i \in Calls : sends[i].pc = "read"}

\* the payload of a frame as the backend means it
FrameData(f) == Obj([j \in 1..Len(f.m) |-> <<f.m[j][1], Str(f.m[j][2])>>])

Field(f, k) == Get(FrameData(f), k)

\* the number of characters of the body up to the end of frame j, up to the
\* end of its data: line, and up to the end of its event: line
FrameEnd(frames, j) == Len(WireText(SubSeq(frames, 1, j)))

DataEnd(frames, j) == FrameEnd(frames, j) - (IF frames[j].padded THEN 1 ELSE 0)

EventEnd(frames, j) ==
    FrameEnd(frames, j - 1) + Len(EventPrefix) + (IF frames[j].padded THEN 1 ELSE 0)
    + Len(frames[j].ev) + 1

\* the frames whose data: line the reads have delivered in full
Dispatched(i) ==
    SubSeq(sends[i].frames, 1,
           Cardinality({j \in 1..Len(sends[i].frames) :
                           DataEnd(sends[i].frames, j) <= sends[i].pos}))

IsProgress(f) == f.json /\ f.ev = TypeProgress

IsThinking(f) == f.json /\ f.ev = TypeThinking

\* a frame with a JSON payload that has the fields of its event type
WellFormed(f) ==
    /\ f.json
    /\ f.ev \in {TypeProgress, TypeError} => Field(f, KeyContent) # Undefined
    /\ f.ev = TypeThinking => Field(f, KeyStatus) # Undefined

AllWellFormed(frames) == \A j \in 1..Len(frames) : WellFormed(frames[j])

\* the content fields of the progress events, in order
ProgressContent(frames) ==
    Concat([j \in 1..Len(frames) |->
               IF IsProgress(frames[j]) THEN Field(frames[j], KeyContent).s ELSE <<>>])

\* C6: for a body of well-formed frames, the content buffer is, after every
\* read and at the end of the stream, the concatenation in arrival order of
\* the content fields of the progress events dispatched so far.
C6_BufferIsProgressContent ==
    \A i \in Calls :
        AllWellFormed(sends[i].frames) =>
            /\ sends[i].pc = "read" => streamingContentRef = ProgressContent(Dispatched(i))
            /\ (sends[i].pc = "done" /\ sends[i].path = "stream") =>
                   streamingContentRef = ProgressContent(sends[i].frames)

C6_Witness ==
    \E i \in Reading :
        /\ sends[i].frames = <<ProgressGA, ThinkingQueued, ProgressText>>
        /\ sends[i].pos = Len(sends[i].body)
        /\ streamingContentRef = <<"x", "w">>

\* a progress event that carries a tool, a file or an action
IsToolProgress(f) ==
    /\ IsProgress(f)
    /\ Truthy(Field(f, KeyTool)) \/ Truthy(Field(f, KeyFile)) \/ Truthy(Field(f, KeyAction))

SameKey(step, f) == step.tool = Field(f, KeyTool) /\ step.file = Field(f, KeyFile)

\* the progress step an event stands for
StepOf(f) ==
    [tool |-> Field(f, KeyTool), file |-> Field(f, KeyFile), action |-> Field(f, KeyAction),
     status |-> IF Field(f, KeyStatus) = Undefined THEN Str(StatusRunning) ELSE Field(f, KeyStatus),
     content |-> Field(f, KeyContent)]

EventsOf(step, events) == {e \in 1..Len(events) : SameKey(step, events[e])}

First(S) == CHOOSE x \in S : \A y \in S : x <= y

Last(S) == CHOOSE x \in S : \A y \in S : x >= y

\* steps holds one entry for the key of each of the events, with the fields of
\* the latest event of that key, in the order in which the keys first appeared
KeyedBy(steps, events) ==
    /\ \A e \in 1..Len(events) :
           Cardinality({n \in 1..Len(steps) : SameKey(steps[n], events[e])}) = 1
    /\ \A n \in 1..Len(steps) :
           /\ EventsOf(steps[n], events) # {}
           /\ steps[n] = StepOf(events[Last(EventsOf(steps[n], events))])
    /\ \A n, n2 \in 1..Len(steps) :
           n < n2 => First(EventsOf(steps[n], events)) < First(EventsOf(steps[n2], events))

\* C7, as claimed: the progress list is keyed by the (tool, file) of all the
\* progress events dispatched so far.
C7_EveryProgressEventKeyed ==
    \A i \in Reading : KeyedBy(progressSteps, SelectSeq(Dispatched(i), IsProgress))

\* C7, amended: the progress list holds exactly one entry for each distinct
\* (tool, file) key of the progress events that carry a tool, a file or an
\* action; the entry has the fields of the latest such event of its key
\* (status running when that event has none) and sits where the key first
\* appeared. A progress event with none of the three leaves the list as it is.
C7_ToolProgressEventsKeyed ==
    \A i \in Reading : KeyedBy(progressSteps, SelectSeq(Dispatched(i), IsToolProgress))

C7_Witness ==
    \E i \in Reading :
        /\ Dispatched(i) = <<ProgressGA, ProgressGB, ProgressGADone>>
        /\ Len(progressSteps) = 2
        /\ progressSteps[1].file = Str(<<"a">>)
        /\ progressSteps[1].status = Str(StatusCompleted)
        /\ progressSteps[2].file = Str(<<"b">>)

EmptyLoopState ==
    [cet |-> TypeMessage, ref |-> <<>>, sc |-> <<>>, steps |-> <<>>, thinking |-> FALSE]

\* C8: however the reads split the body, also inside a line, the loop is
\* after every read where one read of everything delivered so far would have
\* put it: the same content buffer, progress list, thinking flag, event type
\* and buffered incomplete line.
C8_SplitsDoNotMatter ==
    \A i \in Reading :
        ProcessChunk(EmptyLoopState, <<>>, SubSeq(sends[i].body, 1, sends[i].pos))
            = [st |-> LoopState(i), buffer |-> sends[i].buffer]

C8_Witness ==
    \E i \in Reading :
        /\ sends[i].frames = <<ProgressGA, ThinkingQueued>>
        /\ streamingContentRef = <<"x">>
        /\ Len(progressSteps) = 1
        /\ sends[i].buffer = <<"d", "a", "t", "a", ":", " ", "{", QUOTE, "s", "t">>
        /\ ~isThinking

\* C9: the thinking flag is true exactly when the latest thinking event
\* dispatched so far has the status starting or queued (false before any).
C9_ThinkingFollowsLastStatus ==
    \A i \in Reading :
        LET events == SelectSeq(Dispatched(i), IsThinking)
        IN  isThinking <=>
                /\ events # <<>>
                /\ Field(events[Len(events)], KeyStatus).s \in {StatusStarting, StatusQueued}

C9_Witness ==
    \E i \in Reading :
        /\ Dispatched(i) = <<ThinkingStarting, ThinkingQueued, ThinkingDone>>
        /\ ~isThinking

\* the event type in force for the next data: line
ExpectedType(i) ==
    LET n == Len(Dispatched(i))
        frames == sends[i].frames
    IN  IF n < Len(frames) /\ frames[n + 1].ev # <<>> /\ sends[i].pos >= EventEnd(frames, n + 1)
        THEN frames[n + 1].ev
        ELSE TypeMessage

\* a read that delivers exactly the next frame, which has no event: line
DeliversBareFrame(i) ==
    LET n == Len(Dispatched(i))
        frames == sends[i].frames
    IN  /\ i \in Reading
        /\ n < Len(frames)
        /\ frames[n + 1].ev = <<>>
        /\ sends[i].pos = FrameEnd(frames, n)
        /\ sends'[i].pos = FrameEnd(frames, n + 1)

AllIds == SessionIds \cup {FreshIds[k] : k \in 1..Len(FreshIds)} \cup {UnknownId}

\* the ids that have named a session so far
UsedIds == SessionIds \cup {FreshIds[k] : k \in 1..fresh}

\* C11: once the provider has loaded, the session collection holds at least
\* one session, whatever operations of the store follow.
C11_NeverEmpty == status = "running" => Len(sessions) >= 1

C11_Witness ==
    /\ status = "running"
    /\ storage = Absent
    /\ fresh = 2
    /\ Len(sessions) = 1
    /\ sessions[1].id = "s4"

\* C12: once the provider has loaded, the active pointer is the id of a
\* session of the collection, whatever ids create, switch and delete are given.
C12_ActivePointerValid == status = "running" => HasSession(sessions, activeSessionId)

\* C13: switchSession(id) leaves the collection as it is; it moves the
\* pointer and its persisted copy to id when a session has that id, and leaves
\* both as they were when none has.
C13_SwitchOnlyToKnown ==
    [][\A id \in AllIds :
        switchSession(id) =>
            /\ sessions' = sessions
            /\ IF HasSession(sessions, id)
               THEN activeSessionId' = id /\ storedActiveId' = id
               ELSE activeSessionId' = activeSessionId /\ storedActiveId' = storedActiveId]_vars

Others(ss, id) == SelectSeq(ss, LAMBDA x : x.id # id)

\* C15: deleteSession(id) removes the session with that id and no other; if
\* it was the active one and others remain, the pointer moves to one of them;
\* if it was not the active one, the pointer stays.
C15_DeleteRemovesOne ==
    [][\A id \in AllIds :
        deleteSession(id) =>
            /\ ~HasSession(sessions', id)
            /\ Others(sessions, id) # <<>> => sessions' = Others(sessions, id)
            /\ (activeSessionId = id /\ Others(sessions, id) # <<>>) =>
                   HasSession(sessions', activeSessionId')
            /\ (HasSession(sessions, id) /\ activeSessionId # id) =>
                   activeSessionId' = activeSessionId]_vars

\* C15, where the pointer names a session before the deletion
C15_DeleteRemovesOneUnderValidPointer ==
    [][\A id \in AllIds :
        (deleteSession(id) /\ HasSession(sessions, activeSessionId)) =>
            /\ ~HasSession(sessions', id)
            /\ Others(sessions, id) # <<>> => sessions' = Others(sessions, id)
            /\ (activeSessionId = id /\ Others(sessions, id) # <<>>) =>
                   HasSession(sessions', activeSessionId')
            /\ (HasSession(sessions, id) /\ activeSessionId # id) =>
                   activeSessionId' = activeSessionId]_vars

\* C16: createSession(agentId) puts a session with a new id, no messages and
\* the given agentId in front of the collection, leaves the sessions that
\* were there as they were and in their order, and makes the new one active.
C16_CreatePrepends ==
    [][\A agentId \in {"default", "coder", "writer"} :
        createSession(agentId) =>
            /\ Len(sessions') = Len(sessions) + 1
            /\ sessions'[1].id \notin UsedIds
            /\ sessions'[1].messages = <<>>
            /\ sessions'[1].agentId = agentId
            /\ Tail(sessions') = sessions
            /\ activeSessionId' = sessions'[1].id]_vars

C16_Witness ==
    /\ status = "running"
    /\ Len(sessions) = 3
    /\ sessions[1].id = "s3"
    /\ sessions[1].agentId = "coder"
    /\ sessions[1].messages = <<>>
    /\ sessions[2].id = "s1"
    /\ sessions[2].messages # <<>>
    /\ sessions[3].id = "s2"
    /\ activeSessionId = "s3"

\* the session id grows from no messages to some in this step
Fills(id) ==
    /\ HasSession(sessions, id)
    /\ HasSession(sessions', id)
    /\ Find(sessions, id).messages = <<>>
    /\ Find(sessions', id).messages # <<>>

\* the session id is given further messages in this step
Grows(id) ==
    /\ HasSession(sessions, id)
    /\ HasSession(sessions', id)
    /\ Find(sessions, id).messages # <<>>
    /\ Len(Find(sessions', id).messages) > Len(Find(sessions, id).messages)

\* C17: the first time a session goes from empty to non-empty with a user
\* message its name becomes the first 30 characters of that message, with an
\* ellipsis when the message is longer; a later append, and a later change
\* from empty to non-empty after a clear, leaves the name as it is.
C17_NameDerivedOnce ==
    [][\A id \in AllIds :
        /\ (Fills(id) /\ id \notin named /\ Find(sessions', id).messages[1].role = "user") =>
               Find(sessions', id).name =
                   LET content == Find(sessions', id).messages[1].content
                   IN  IF Len(content) > 30
                       THEN SubSeq(content, 1, 30) \o <<".", ".", ".">>
                       ELSE content
        /\ (Fills(id) /\ id \in named) => Find(sessions', id).name = Find(sessions, id).name
        /\ Grows(id) => Find(sessions', id).name = Find(sessions, id).name]_vars

\* C18: what saveSessions writes, loadSessions reads back as the same
\* collection: the same sessions in the same order, each with its id, name,
\* agentId and messages, and createdAt, updatedAt and every timestamp the same
\* instants.
C18_SaveLoadRoundTrip ==
    status = "running" =>
        /\ loadSessions(JSONStringify(sessions)) = sessions
        /\ storageMode = "ok" => loadSessions(storage) = sessions

C18_Witness ==
    /\ status = "running"
    /\ storageMode = "ok"
    /\ Len(sessions) = 1
    /\ sessions[1].createdAt = DateOf(58001)
    /\ sessions[1].updatedAt = DateOf(60000)
    /\ Len(sessions[1].messages) = 1
    /\ sessions[1].messages[1].timestamp = DateOf(60000)
    /\ storage.v[1].createdAt = Str(IsoDayAndHour \o <<"0", "0", ":", "5", "8", ".", "0", "0", "1", "Z">>)
    /\ storage.v[1].messages[1].timestamp =
           Str(IsoDayAndHour \o <<"0", "1", ":", "0", "0", ".", "0", "0", "0", "Z">>)
    /\ loadSessions(storage) = sessions

\* the mount effect leaves one fresh session, which is active
StartsFresh ==
    /\ status' = "running"
    /\ Len(sessions') = 1
    /\ sessions'[1].messages = <<>>
    /\ sessions'[1].name = NewConversation
    /\ activeSessionId' = sessions'[1].id

\* C19: when the stored collection cannot be read or parsed the provider
\* starts with one fresh empty session that is active; and a save that fails
\* does not stop the store.
C19_LoadFailureStartsFresh ==
    /\ [][(Mount /\ LoadThrows(storage)) => StartsFresh]_vars
    /\ [][(status = "running" /\ storageMode # "ok") =>
            (status' # "crashed" /\ storage' = storage)]_vars

\* C19, for a stored collection that can be read and cannot be parsed
C19_ParseFailureStartsFresh ==
    /\ [][(Mount /\ LoadThrows(storage) /\ storageMode # "denied") => StartsFresh]_vars
    /\ [][(status = "running" /\ storageMode # "ok") =>
            (status' # "crashed" /\ storage' = storage)]_vars

(* ------------------------------------------------------------------ *)
(* Properties of the reconciliation                                   *)
(* ------------------------------------------------------------------ *)

\* the transcript that localStorage holds
Cached ==
    IF storageMode # "denied" /\ chatHistory.t = "json"
    THEN loadMessages(chatHistory)
    ELSE <<>>

\* the backend history holds a message with the content of m
BackendHas(backend, m) ==
    \E k \in 1..Len(backend) : Trim(backend[k].content) = Trim(m.content)

\* the messages of local that the backend history does not hold, in order
LocalOnly(local, backend) == SelectSeq(local, LAMBDA m : ~BackendHas(backend, m))

NotWelcome(local) == SelectSeq(local, LAMBDA m : m.id # WelcomeId)

\* C20, word for word: when a backend history that holds messages arrives,
\* the transcript becomes the backend messages in their order followed by
\* the cached messages that the backend history does not hold, in their order.
C20_MergedIsBackendThenLocalOnly ==
    [][\A wire \in Histories : \A randoms \in [1..Len(wire) -> RandomTexts] :
        initChat(loadHistory(wire, randoms)) =>
            useChat_messages' =
                loadHistory(wire, randoms) \o LocalOnly(Cached, loadHistory(wire, randoms))]_vars

\* C20, the welcome message aside: when a backend history that holds
\* messages arrives, the transcript becomes the backend messages in their
\* order followed by the cached messages, other than the welcome message,
\* that the backend history does not hold, in their order: none is dropped.
C20_NoCachedMessageLost ==
    [][\A wire \in Histories : \A randoms \in [1..Len(wire) -> RandomTexts] :
        initChat(loadHistory(wire, randoms)) =>
            useChat_messages' =
                loadHistory(wire, randoms)
                \o NotWelcome(LocalOnly(Cached, loadHistory(wire, randoms)))]_vars

\* C20, for the transcript that initChat read when the hook was mounted
C20_MergeOfWhatWasRead ==
    [][\A wire \in Histories : \A randoms \in [1..Len(wire) -> RandomTexts] :
        initChat(loadHistory(wire, randoms)) =>
            /\ useChat_messages' =
                  loadHistory(wire, randoms)
                  \o NotWelcome(LocalOnly(localMessages, loadHistory(wire, randoms)))
            /\ storageMode = "ok" => loadMessages(chatHistory') = useChat_messages']_vars

\* a message sent while the history was loading has been dropped
C20_SentMessageDropped ==
    /\ ~isLoadingHistory
    /\ useChat_sends = 1
    /\ \A k \in 1..Len(useChat_messages) : useChat_messages[k].role # "user"
    /\ \A k \in 1..Len(useChat_messages) : Trim(useChat_messages[k].content) # Hi

(* ------------------------------------------------------------------ *)
(* Properties of single frames and of the end of the body             *)
(* ------------------------------------------------------------------ *)

\* the number of frames whose data: line lies within the first pos characters
DispatchedAt(frames, pos) ==
    Cardinality({j \in 1..Len(frames) : DataEnd(frames, j) <= pos})

\* a read of call i that completes the data: line of frame j and of no other
DispatchesOnly(i, j) ==
    /\ i \in Reading
    /\ DispatchedAt(sends[i].frames, sends[i].pos) = j - 1
    /\ DispatchedAt(sends[i].frames, sends'[i].pos) = j

FrameOf(i, j) == sends[i].frames[j]

\* the payload of the frame is a JSON text
IsJson(f) == JSONParse(PayloadText(f)).ok

\* C21, word for word: a data: line whose payload is no JSON text appends the
\* payload text as it is to the content buffer, whatever the event type, and
\* the loop goes on reading.
C21_RawPayloadAppendedVerbatim ==
    [][\A i \in Calls : \A j \in 1..Len(sends[i].frames) :
        (DispatchesOnly(i, j) /\ ~IsJson(FrameOf(i, j))) =>
            /\ streamingContentRef' = streamingContentRef \o PayloadText(FrameOf(i, j))
            /\ streamingContent' = streamingContentRef'
            /\ sends'[i].pc = "read"]_vars

\* C21, for the payload text without the white space around it
C21_RawPayloadAppendedTrimmed ==
    [][\A i \in Calls : \A j \in 1..Len(sends[i].frames) :
        (DispatchesOnly(i, j) /\ ~IsJson(FrameOf(i, j))) =>
            /\ streamingContentRef' = streamingContentRef \o Trim(PayloadText(FrameOf(i, j)))
            /\ streamingContent' = streamingContentRef'
            /\ progressSteps' = progressSteps
            /\ isThinking' = isThinking
            /\ sends'[i].pc = "read"]_vars

\* a raw payload under progress was appended and the frame after it processed
C21_RawThenProgress ==
    \E i \in Reading :
        /\ sends[i].frames = <<RawProgress, ProgressGA>>
        /\ sends[i].pos = Len(sends[i].body)
        /\ streamingContentRef = <<"{", "x", "x">>
        /\ Len(progressSteps) = 1

\* C22: a data: line with a JSON payload under an event type other than
\* thinking and progress (message, error, an unknown type) leaves the content
\* buffer, the progress list and the thinking flag as they are, and the loop
\* goes on reading.
C22_OtherTypesIgnored ==
    [][\A i \in Calls : \A j \in 1..Len(sends[i].frames) :
        (/\ DispatchesOnly(i, j)
         /\ IsJson(FrameOf(i, j))
         /\ FrameOf(i, j).ev \notin {TypeThinking, TypeProgress}) =>
            /\ streamingContentRef' = streamingContentRef
            /\ streamingContent' = streamingContent
            /\ progressSteps' = progressSteps
            /\ isThinking' = isThinking
            /\ sends'[i].pc = "read"]_vars

\* C22, for the payloads that are JSON objects
C22_ObjectsOfOtherTypesIgnored ==
    [][\A i \in Calls : \A j \in 1..Len(sends[i].frames) :
        (/\ DispatchesOnly(i, j)
         /\ IsJson(FrameOf(i, j))
         /\ JSONParse(PayloadText(FrameOf(i, j))).val.t = "object"
         /\ FrameOf(i, j).ev \notin {TypeThinking, TypeProgress}) =>
            /\ streamingContentRef' = streamingContentRef
            /\ streamingContent' = streamingContent
            /\ progressSteps' = progressSteps
            /\ isThinking' = isThinking
            /\ sends'[i].pc = "read"]_vars

\* the payload null of an error event has joined the content buffer
C22_NullOfErrorAppended ==
    \E i \in Reading :
        /\ sends[i].frames = <<NullError>>
        /\ streamingContentRef = <<"n", "u", "l", "l">>

\* the content field of a frame, the empty text when it has none
ContentOrEmpty(f) ==
    IF Field(f, KeyContent) = Undefined THEN <<>> ELSE Field(f, KeyContent).s

\* C23: every progress event appends its content to the content buffer and
\* publishes the buffer as the partial content, with or without tool, file
\* and action; without a content field it appends the empty text.
C23_ProgressAppendsContent ==
    [][\A i \in Calls : \A j \in 1..Len(sends[i].frames) :
        (DispatchesOnly(i, j) /\ IsProgress(FrameOf(i, j))) =>
            /\ streamingContentRef' = streamingContentRef \o ContentOrEmpty(FrameOf(i, j))
            /\ streamingContent' = streamingContentRef']_vars

\* C23, for the progress events that have a content field
C23_ProgressWithContentAppends ==
    [][\A i \in Calls : \A j \in 1..Len(sends[i].frames) :
        (/\ DispatchesOnly(i, j)
         /\ IsProgress(FrameOf(i, j))
         /\ Field(FrameOf(i, j), KeyContent) # Undefined) =>
            /\ streamingContentRef' = streamingContentRef \o ContentOrEmpty(FrameOf(i, j))
            /\ streamingContent' = streamingContentRef']_vars

\* the text undefined of a progress event without content is in the buffer
C23_UndefinedAppended ==
    \E i \in Reading :
        /\ sends[i].frames = <<ProgressNoContent>>
        /\ streamingContentRef = <<"u", "n", "d", "e", "f", "i", "n", "e", "d">>

\* the body of call i ended before the newline of its last line
CutShort(i) ==
    /\ sends[i].frames # <<>>
    /\ Len(sends[i].body) = FrameEnd(sends[i].frames, Len(sends[i].frames)) - 1

\* a read of call i that delivers no newline
DeliversNoNewline(i) ==
    /\ i \in Reading
    /\ sends'[i].pos > sends[i].pos
    /\ \A k \in (sends[i].pos + 1)..sends'[i].pos : sends[i].body[k] # NL

\* the stream of call i has completed
StreamDone(i) == sends[i].pc = "done" /\ sends[i].path = "stream"

\* C29: a last line that no newline ends when the read reports completion
\* is not dispatched. A read that delivers no newline changes neither the
\* content buffer, the progress list nor the thinking flag; completion
\* builds the reply from the content buffer as the complete lines left it;
\* so the reply of a body of well-formed frames is the content of the
\* progress events whose data: line was complete, or the placeholder.
C29_UnterminatedLineDropped ==
    /\ [][\A i \in Calls :
            DeliversNoNewline(i) =>
                /\ streamingContentRef' = streamingContentRef
                /\ progressSteps' = progressSteps
                /\ isThinking' = isThinking]_vars
    /\ [][\A i \in Calls :
            ReadDone(i) =>
                /\ messages'[Len(messages')].content =
                      (IF streamingContentRef # <<>> THEN streamingContentRef ELSE NoResponse)
                /\ sends'[i].reply = messages'[Len(messages')].content]_vars
    /\ [](\A i \in Calls :
            (StreamDone(i) /\ AllWellFormed(sends[i].frames)) =>
                sends[i].reply =
                    (IF ProgressContent(SubSeq(sends[i].frames, 1,
                                               DispatchedAt(sends[i].frames, sends[i].pos))) # <<>>
                     THEN ProgressContent(SubSeq(sends[i].frames, 1,
                                                 DispatchedAt(sends[i].frames, sends[i].pos)))
                     ELSE NoResponse))

C29_Witness ==
    \E i \in Calls :
        /\ StreamDone(i)
        /\ sends[i].frames = <<ProgressText, ProgressGA>>
        /\ sends[i].pos = FrameEnd(sends[i].frames, 2) - 1
        /\ sends[i].reply = <<"w">>
        /\ messages[Len(messages)].content = <<"w">>

(* ------------------------------------------------------------------ *)
(* Properties of the reply and of the flags, over several sends       *)
(* ------------------------------------------------------------------ *)

\* the content buffer, or the placeholder when it is empty
BufferOrPlaceholder(ref) == IF ref # <<>> THEN ref ELSE NoResponse

\* C24: when the stream completes, the assistant message that is appended
\* to the display and to the session of the send has as content the content
\* buffer, or 'No response' when the buffer is empty; and that is the content
\* of the progress events of this send alone, whatever an earlier send
\* accumulated.
C24_ReplyIsBufferOfThisSend ==
    /\ [][\A i \in Calls :
            ReadDone(i) =>
                /\ messages'[Len(messages')].role = "assistant"
                /\ messages'[Len(messages')].content = BufferOrPlaceholder(streamingContentRef)
                /\ HasSession(sessions, sends[i].sid) =>
                       Find(sessions', sends[i].sid).messages[TranscriptLen(sessions', sends[i].sid)]
                           = messages'[Len(messages')]]_vars
    /\ [](\A i \in Calls :
            StreamDone(i) =>
                sends[i].reply = BufferOrPlaceholder(ProgressContent(sends[i].frames)))

\* the second send completed with its own content after the first had
\* accumulated the same
C24_Witness ==
    /\ Len(sends) = 2
    /\ StreamDone(2)
    /\ sends[2].frames = <<ThinkingQueued, ProgressGA>>
    /\ sends[2].reply = <<"x">>
    /\ \E id \in SessionIds :
          /\ TranscriptLen(sessions, id) = 4
          /\ Find(sessions, id).messages[2].content = <<"x">>
          /\ Find(sessions, id).messages[4].content = <<"x">>

\* C25: while no send is in flight the busy, streaming and thinking flags
\* are false and the progress list and the partial content are empty, by
\* whatever path the last send resolved; so an invocation made then is not
\* refused as busy.
C25_IdleStateIsClean ==
    /\ [](InFlight = {} =>
            /\ ~isLoading
            /\ ~isStreaming
            /\ ~isThinking
            /\ progressSteps = <<>>
            /\ streamingContent = <<>>)
    /\ [][(InFlight = {} /\ invocations' # invocations) => lastCall' # "busy"]_vars

\* a send has resolved with its reply and the next one was accepted
C25_Witness ==
    /\ Len(sends) = 2
    /\ sends[1].pc = "done"
    /\ sends[2].pc = "stream"
    /\ lastCall = "accepted"
    /\ isLoading
    /\ progressSteps = <<>>
    /\ TranscriptLen(sessions, sends[2].sid) = 3

----------------------------------------------------------------------------
\* Properties of a send beside the operations of the store

\* a message list without the welcome message
WithoutWelcome(ms) == SelectSeq(ms, LAMBDA m : m # DEFAULT_MESSAGES[1])

\* the transcript of a session of the collection
TranscriptOf(ss, id) == Find(ss, id).messages

\* the sends accepted or resolved by the step
ActedIn(i) ==
    \/ i > Len(sends)
    \/ i <= Len(sends) /\ sends[i].pc # "done" /\ sends'[i].pc = "done"

\* C26: whenever no send is in flight, the displayed message list without the
\* welcome message is the transcript of the active session
C26_DisplayedIsActiveTranscript ==
    (InFlight = {} /\ HasSession(sessions, activeSessionId))
        => WithoutWelcome(messages) = TranscriptOf(sessions, activeSessionId)

\* C26: the same of the pages whose active session stayed the same from the
\* acceptance of the send to its reply
C26_DisplayedIsActiveTranscriptUnlessSwitched ==
    (/\ InFlight = {}
     /\ HasSession(sessions, activeSessionId)
     /\ fresh = 0
     /\ \A i \in Calls : sends[i].sid = activeSessionId)
        => WithoutWelcome(messages) = TranscriptOf(sessions, activeSessionId)

\* C26: the reply of a send accepted in s1 is displayed under s2, whose
\* transcript is empty
C26_ReplyShownInOtherSession ==
    /\ InFlight = {}
    /\ Len(sends) = 1
    /\ sends[1].sid = "s1"
    /\ activeSessionId = "s2"
    /\ TranscriptOf(sessions, "s2") = <<>>
    /\ Len(messages) = 2
    /\ messages[2].role = "assistant"
    /\ messages[2] = TranscriptOf(sessions, "s1")[2]

\* C27: every transcript alternates user, assistant, starting with user
C27_TranscriptsAlternate ==
    \A k \in 1..Len(sessions) :
        \A n \in 1..Len(sessions[k].messages) :
            sessions[k].messages[n].role = IF n % 2 = 1 THEN "user" ELSE "assistant"

\* C27: the same of the pages on which no history was cleared and no session
\* deleted
C27_TranscriptsAlternateUnlessCleared ==
    (\A i \in Calls : /\ HasSession(sessions, sends[i].sid)
                       /\ TranscriptLen(sessions, sends[i].sid) > 0
                       /\ TranscriptOf(sessions, sends[i].sid)[1].role = "user")
        => C27_TranscriptsAlternate

\* C27: a history cleared while its send was in flight holds the reply alone
C27_ReplyWithoutUserMessage ==
    /\ InFlight = {}
    /\ Len(sends) = 1
    /\ HasSession(sessions, sends[1].sid)
    /\ Len(TranscriptOf(sessions, sends[1].sid)) = 1
    /\ TranscriptOf(sessions, sends[1].sid)[1].role = "assistant"

\* C28: a step of a send changes the session that was active when the send was
\* accepted and no other: every other session keeps its transcript, its name,
\* its agent and its place, and the active pointer stays
C28_OnlyTheAcceptingSessionChanges ==
    [][(callVars' # callVars) =>
          /\ Len(sends') > Len(sends) => sends'[Len(sends')].sid = activeSessionId
          /\ activeSessionId' = activeSessionId
          /\ Len(sessions') = Len(sessions)
          /\ \A k \in 1..Len(sessions) :
                /\ sessions'[k].id = sessions[k].id
                /\ sessions'[k].agentId = sessions[k].agentId
                /\ sessions'[k] # sessions[k]
                      => \E i \in 1..Len(sends') :
                            ActedIn(i) /\ sends'[i].sid = sessions[k].id]_vars

\* C28: a send accepted in s1 resolved after a session was created and s2 made
\* active: s1 holds its two messages and its name, the others hold nothing
C28_Witness ==
    /\ Len(sends) = 1
    /\ sends[1].pc = "done"
    /\ sends[1].sid = "s1"
    /\ Len(sessions) = 3
    /\ activeSessionId = "s2"
    /\ Len(TranscriptOf(sessions, "s1")) = 2
    /\ TranscriptOf(sessions, "s1")[2].role = "assistant"
    /\ Find(sessions, "s1").name = NameFrom(sends[1].content)
    /\ \A k \in 1..Len(sessions) :
          sessions[k].id # "s1" => /\ sessions[k].messages = <<>>
                                   /\ sessions[k].name = createEmptySession("s2", "coder").name

----------------------------------------------------------------------------
\* Properties of the list of Todos

\* the display groups a todo is in
GroupsOf(t) ==
    {g \in {"expired", "today", "tomorrow", "later", "noDate"} :
        \E n \in 1..Len(groupTodos(todos)[g]) : groupTodos(todos)[g][n].id = t.id}

\* C30: every todo of the collection appears in exactly one of the five
\* display groups, whatever its due date and its completed flag
C30_EveryTodoInExactlyOneGroup ==
    \A n \in 1..Len(todos) : Cardinality(GroupsOf(todos[n])) = 1

\* C30: the same of the todos that are not both completed and overdue; no todo
\* is in two groups
C30_EveryOpenOrCurrentTodoInOneGroup ==
    \A n \in 1..Len(todos) :
        /\ Cardinality(GroupsOf(todos[n])) <= 1
        /\ ~(todos[n].completed /\ InExpiredThoughCompleted(todos[n]))
              => Cardinality(GroupsOf(todos[n])) = 1

\* C30: a todo that was due yesterday has been toggled to completed and is in
\* no group: a collection of one todo renders as an empty list
C30_CompletedOverdueNotRendered ==
    /\ Len(todos) = 1
    /\ todos[1].completed
    /\ InExpiredThoughCompleted(todos[1])
    /\ Rendered(todos) = <<>>

====
